---- MODULE Spec2Model ----
(***************************************************************************)
(* Backtest simulation core of ema-vix-rsi-strategy.                       *)
(*                                                                         *)
(* BaseStrategy.run (backtesting/strategies/base_strategy.py) is modelled  *)
(* statement by statement as a state machine; the signal generators of the *)
(* strategy subclasses and the loop of python/backtest.py run_strategy are *)
(* modelled beside it.  Floating point values are exact rationals <<n, d>> *)
(* (d > 0, lowest terms); NaN is <<0, 0>>.                                 *)
(***************************************************************************)
EXTENDS Integers, Sequences, FiniteSets, TLC

VARIABLES
    data,            \* the DataFrame handed to run(): a sequence of bars
    strategy,        \* the strategy object's class and parameters
    initial_capital, \* self.initial_capital
    capital,         \* self.capital
    position,        \* self.position (shares held)
    entry_price,     \* self.entry_price
    trades,          \* self.trades
    equity_curve,    \* self.equity_curve
    idx,             \* loop index of run()
    signal,          \* local `signal` of run(): the last signal returned
    pc,              \* where the running function stands
    metrics,         \* the dictionary the run returned
    indicators,      \* indicator arrays computed before the loop
    equity,          \* run_strategy: realised equity
    peak_equity,     \* run_strategy: running peak of the equity curve
    max_drawdown,    \* run_strategy: running maximum drawdown
    early_return,    \* run_strategy: return at the mid point
    prev_ema_fast,   \* AdaptiveEMAV2: self.prev_ema_fast
    prev_ema_slow,   \* AdaptiveEMAV2: self.prev_ema_slow
    calls_left,      \* how many more times the caller calls run() on the object
    returned,        \* what each completed call of run() left: metrics, trades, equity
                     \* curve and the object's crossover memory
    optimizer,       \* which sweep is running: optimize, optimize_numba or grid_search
    total_combinations, \* len(param_list) / len(combinations) of the sweep
    evaluated,       \* the evaluations of the sweep so far, in the order they were made
    tested_count,    \* optimize_ticker: tested_count (optimize_numba: i + 1)
    valid_count,     \* optimize_ticker: valid_count
    skipped_count,   \* optimize_ticker: skipped_count
    best_result,     \* optimize_ticker: best_result
    results,         \* grid_search: results, then the sorted table it returns
    sweep_pc,        \* where the sweep stands
    call,            \* a call of a library function or constructor: its name and arguments
    ret,             \* what the call returned or raised
    ema_cache,       \* optimize_ticker: ema_cache, EMA length -> series
    vol_cache,       \* optimize_ticker: vol_cache, (atr_length, volatility_length) -> ranks
    train_period_days, \* walk_forward_optimization: train_period_days
    test_period_days,  \* walk_forward_optimization: test_period_days
    current_idx,     \* walk_forward_optimization: current_idx
    trade_count      \* run_strategy_numba: trade_count

(* Locals of python/backtest.py run_strategy that BaseStrategy does not have *)
legacyVars == <<equity, peak_equity, max_drawdown, early_return>>

(* State of the strategy objects that run_strategy does not have *)
objectVars == <<prev_ema_fast, prev_ema_slow, calls_left, returned>>

(* State of the parameter sweeps *)
sweepVars == <<optimizer, total_combinations, evaluated, tested_count, valid_count,
               skipped_count, best_result, results, sweep_pc>>

(* A call of a function outside the simulation loop *)
callVars == <<call, ret>>

(* The indicator caches of a sweep *)
cacheVars == <<ema_cache, vol_cache>>

(* Locals of walk_forward_optimization *)
walkVars == <<train_period_days, test_period_days, current_idx>>

(* Locals of run_strategy_numba *)
numbaVars == <<trade_count>>

laterVars == <<cacheVars, walkVars, numbaVars>>

optVars == <<sweepVars, callVars, laterVars>>

(* State of one simulation: BaseStrategy.run or run_strategy *)
runVars == <<data, strategy, initial_capital, capital, position, entry_price,
             trades, equity_curve, idx, signal, pc, metrics, indicators,
             legacyVars, objectVars>>

vars == <<data, strategy, initial_capital, capital, position, entry_price,
          trades, equity_curve, idx, signal, pc, metrics, indicators,
          legacyVars, objectVars, optVars>>

-----------------------------------------------------------------------------
(* Bounds of the model *)

MaxBars == 4
MaxPrice == 2

(* BaseStrategy.__init__ default *)
DefaultCapital == 10000

-----------------------------------------------------------------------------
(* Exact arithmetic standing in for float64 *)

Abs(x) == IF x < 0 THEN -x ELSE x

RECURSIVE GCD(_, _)
GCD(a, b) == IF b = 0 THEN a ELSE GCD(b, a % b)

NaN == <<0, 0>>
IsNaN(r) == r[2] = 0

Rat(n, d) ==
    IF d = 0 THEN NaN
    ELSE LET s == IF d < 0 THEN -1 ELSE 1
             g == GCD(Abs(n), Abs(d))
         IN  <<(s * n) \div g, (s * d) \div g>>

R(n) == <<n, 1>>
Zero == R(0)

RMul(a, b) == IF IsNaN(a) \/ IsNaN(b) THEN NaN
              ELSE LET g1 == GCD(Abs(a[1]), b[2])
                       g2 == GCD(Abs(b[1]), a[2])
                   IN  Rat((a[1] \div g1) * (b[1] \div g2),
                           (a[2] \div g2) * (b[2] \div g1))

(* x / 0 is NaN here: the model never divides a non-zero value by zero *)
RDiv(a, b) == IF IsNaN(a) \/ IsNaN(b) \/ b[1] = 0 THEN NaN
              ELSE RMul(a, Rat(b[2], b[1]))

RAdd(a, b) == IF IsNaN(a) \/ IsNaN(b) THEN NaN
              ELSE LET g == GCD(a[2], b[2])
                   IN  Rat(a[1] * (b[2] \div g) + b[1] * (a[2] \div g),
                           (a[2] \div g) * b[2])

RNeg(a) == IF IsNaN(a) THEN NaN ELSE <<-a[1], a[2]>>
RSub(a, b) == RAdd(a, RNeg(b))

(* IEEE comparisons: every comparison with NaN is False *)
RLt(a, b) == /\ ~IsNaN(a)
             /\ ~IsNaN(b)
             /\ LET g == GCD(a[2], b[2])
                IN  a[1] * (b[2] \div g) < b[1] * (a[2] \div g)
RGt(a, b) == RLt(b, a)
RLe(a, b) == ~IsNaN(a) /\ ~IsNaN(b) /\ ~RLt(b, a)
RGe(a, b) == RLe(b, a)
REq(a, b) == ~IsNaN(a) /\ ~IsNaN(b) /\ a = b
RAbs(a) == IF IsNaN(a) THEN NaN ELSE <<Abs(a[1]), a[2]>>
RMax(a, b) == IF RLt(a, b) THEN b ELSE a
RMin(a, b) == IF RLt(b, a) THEN b ELSE a

Hundred == R(100)

(* Python's None *)
None == [none |-> TRUE]

(* Python's max of three integers *)
Max3(a, b, c) == IF a >= b /\ a >= c THEN a ELSE IF b >= c THEN b ELSE c

-----------------------------------------------------------------------------
(* Input bars *)

Prices == 1..MaxPrice

Bar(t, h, l, c) == [timestamp |-> t, high |-> R(h), low |-> R(l), close |-> R(c)]

(* A series of n bars with closes cs: timestamps strictly increasing *)
FlatBars(cs) == [i \in 1..Len(cs) |-> Bar(i - 1, cs[i], cs[i], cs[i])]

SeriesOfLen(n) == {FlatBars(cs) : cs \in [1..n -> Prices]}

AnySeries == UNION {SeriesOfLen(n) : n \in 1..MaxBars}

(* data.iloc[i] with Python's 0-based i; data.iloc[-1] is ILast *)
ILoc(df, i) == df[i + 1]
ILast(df) == df[Len(df)]

-----------------------------------------------------------------------------
(* BaseStrategy *)

Signals == {"BUY", "SELL", "NONE"}

(* BaseStrategy._execute_buy: the state after it, as a record of the fields it writes *)
ExecuteBuy(bar, cap, trs) ==
    LET price == bar.close
        pos == RDiv(cap, price)
    IN  [position |-> pos,
         entry_price |-> price,
         capital |-> cap,
         trades |-> Append(trs, [timestamp |-> bar.timestamp, type |-> "BUY",
                                 price |-> price, shares |-> pos, capital |-> cap])]

(* _execute_sell that realises the entry value instead of the sale value *)
ExecuteSellAtEntry(bar, pos, entry, trs) ==
    LET price == bar.close
        sale_value == RMul(pos, entry)
    IN  [position |-> Zero,
         entry_price |-> Zero,
         capital |-> sale_value,
         trades |-> Append(trs, [timestamp |-> bar.timestamp, type |-> "SELL",
                                 price |-> entry, shares |-> pos,
                                 capital |-> sale_value, return |-> Zero])]

(* _execute_sell that leaves self.position and self.entry_price as they were *)
ExecuteSellKeepsPosition(bar, pos, entry, trs) ==
    LET price == bar.close
        sale_value == RMul(pos, price)
        returns == RMul(RDiv(RSub(price, entry), entry), Hundred)
    IN  [position |-> pos,
         entry_price |-> entry,
         capital |-> sale_value,
         trades |-> Append(trs, [timestamp |-> bar.timestamp, type |-> "SELL",
                                 price |-> price, shares |-> pos,
                                 capital |-> sale_value, return |-> returns])]

(* BaseStrategy._execute_sell *)
ExecuteSell(bar, pos, entry, trs) ==
    LET price == bar.close
        sale_value == RMul(pos, price)
        returns == RMul(RDiv(RSub(price, entry), entry), Hundred)
    IN  [position |-> Zero,
         entry_price |-> Zero,
         capital |-> sale_value,
         trades |-> Append(trs, [timestamp |-> bar.timestamp, type |-> "SELL",
                                 price |-> price, shares |-> pos,
                                 capital |-> sale_value, return |-> returns])]

(* _calculate_equity without the mark-to-market branch *)
CalculateEquityCashOnly(bar, pos, cap) == cap

(* BaseStrategy._calculate_equity *)
CalculateEquity(bar, pos, cap) ==
    IF RGt(pos, Zero) THEN RMul(pos, bar.close) ELSE cap

(* Branch without the position tests *)
BranchUngated(sig, pos) ==
    IF sig = "BUY" THEN "buy" ELSE IF sig = "SELL" THEN "sell" ELSE "none"

(* The branch of run()'s loop body taken for a signal: lines 75-78 *)
Branch(sig, pos) ==
    IF sig = "BUY" /\ REq(pos, Zero) THEN "buy"
    ELSE IF sig = "SELL" /\ RGt(pos, Zero) THEN "sell"
    ELSE "none"

(* pandas cummax of the equity column: peak[i] = max(equity[1..i]) *)
RECURSIVE CumMaxAt(_, _)
CumMaxAt(eq, i) == IF i = 1 THEN eq[1] ELSE RMax(CumMaxAt(eq, i - 1), eq[i])

(* equity_df['drawdown'] at row i: lines 146-147 *)
DrawdownAt(eq, i) ==
    LET peak == CumMaxAt(eq, i)
    IN  RMul(RDiv(RSub(eq[i], peak), peak), Hundred)

(* Series.min() of the drawdown column over rows 1..i *)
RECURSIVE DrawdownMin(_, _)
DrawdownMin(eq, i) ==
    IF i = 1 THEN DrawdownAt(eq, 1)
    ELSE RMin(DrawdownMin(eq, i - 1), DrawdownAt(eq, i))

SellTrades(trs) == SelectSeq(trs, LAMBDA t : t.type = "SELL")
BuyTrades(trs) == SelectSeq(trs, LAMBDA t : t.type = "BUY")

(* BaseStrategy._calculate_metrics, without the Sharpe ratio (a square root) *)
CalculateMetrics(df, eqc, cap, init, trs) ==
    LET eq == [i \in 1..Len(eqc) |-> eqc[i].equity]
        total_return == RMul(RDiv(RSub(cap, init), init), Hundred)
        first == ILoc(df, 0).close
        buy_hold_return == RMul(RDiv(RSub(ILast(df).close, first), first), Hundred)
        max_dd == DrawdownMin(eq, Len(eq))
        sell_trades == SellTrades(trs)
        num_trades == Len(sell_trades)
        winning == Len(SelectSeq(sell_trades, LAMBDA t : RGt(t.return, Zero)))
        losing == Len(SelectSeq(sell_trades, LAMBDA t : RLe(t.return, Zero)))
    IN  [total_return |-> total_return,
         buy_hold_return |-> buy_hold_return,
         alpha |-> RSub(total_return, buy_hold_return),
         final_capital |-> cap,
         max_drawdown |-> max_dd,
         calmar_ratio |-> IF max_dd # Zero
                          THEN RDiv(total_return, RAbs(max_dd)) ELSE Zero,
         num_trades |-> num_trades,
         winning_trades |-> IF num_trades > 0 THEN winning ELSE 0,
         losing_trades |-> IF num_trades > 0 THEN losing ELSE 0,
         win_rate |-> IF num_trades > 0 THEN Rat(winning * 100, num_trades) ELSE Zero]

NoMetrics == [error |-> "none"]

-----------------------------------------------------------------------------
(* Indicator library: python/indicators.py *)

Column(df, name) == [i \in 1..Len(df) |-> df[i][name]]

(* Series.ewm(span=period, adjust=False).mean(), pandas' ewm loop with     *)
(* ignore_na=False and min_periods=0: a = 2 / (period + 1); without NaN    *)
(* y[0] = x[0] and y[t] = (1 - a) * y[t-1] + a * x[t]; a NaN input carries *)
(* the last value forward and ages its weight.  The states after x[1..t].  *)
RECURSIVE EwmStates(_, _, _)
EwmStates(xs, period, t) ==
    IF t = 0 THEN <<>>
    ELSE IF t = 1 THEN <<[weighted |-> xs[1], old_wt |-> R(1)]>>
    ELSE LET before == EwmStates(xs, period, t - 1)
             st == before[t - 1]
             cur == xs[t]
             alpha == Rat(2, period + 1)
             old_wt == RMul(st.old_wt, Rat(period - 1, period + 1))
         IN  Append(before,
                 IF ~IsNaN(st.weighted)
                 THEN IF ~IsNaN(cur)
                      THEN [weighted |->
                                IF st.weighted # cur
                                THEN RDiv(RAdd(RMul(old_wt, st.weighted), RMul(alpha, cur)),
                                          RAdd(old_wt, alpha))
                                ELSE st.weighted,
                            old_wt |-> R(1)]
                      ELSE [weighted |-> st.weighted, old_wt |-> old_wt]
                 ELSE IF ~IsNaN(cur) THEN [weighted |-> cur, old_wt |-> st.old_wt]
                 ELSE st)

(* ema(series, period): the whole smoothed series *)
Ema(xs, period) ==
    LET sts == EwmStates(xs, period, Len(xs))
    IN  [t \in 1..Len(xs) |-> sts[t].weighted]

(* ranges.max(axis=1): the NaN of close.shift() at the first bar is skipped *)
TrueRange(df) ==
    [i \in 1..Len(df) |->
        LET high_low == RSub(df[i].high, df[i].low)
        IN  IF i = 1 THEN high_low
            ELSE RMax(high_low,
                      RMax(RAbs(RSub(df[i].high, df[i - 1].close)),
                           RAbs(RSub(df[i].low, df[i - 1].close))))]

(* atr(high, low, close, period) *)
Atr(df, period) == Ema(TrueRange(df), period)

(* (atr_values / closes) * 100 *)
NormalizedAtr(df, period) ==
    LET a == Atr(df, period)
    IN  [i \in 1..Len(df) |-> RMul(RDiv(a[i], df[i].close), Hundred)]

-----------------------------------------------------------------------------
(* AdaptiveEmaV1Strategy: backtesting/strategies/adaptive_ema_v1/base.py *)

(* calculate_volatility_percentile; row k is Python index i = k - 1, the    *)
(* window natr.iloc[i - vol_length:i] is rows k - vol_length .. k - 1       *)
V1VolatilityPercentile(natr, vol_length) ==
    [k \in 1..Len(natr) |->
        IF k - 1 < vol_length THEN R(50)
        ELSE RMul(Rat(Cardinality({j \in (k - vol_length)..(k - 1) : RLe(natr[j], natr[k])}),
                      vol_length),
                  Hundred)]

(* Lines 171-188: the regime of a bar from its percentile *)
V1SelectRegime(pct, low_pct, high_pct) ==
    IF RLt(pct, R(low_pct)) THEN "low"
    ELSE IF RGe(pct, R(high_pct)) THEN "high"
    ELSE "medium"

(* calculate_indicators: a copy of the frame with the indicator columns *)
V1CalculateIndicators(s, df) ==
    LET close == Column(df, "close")
        atr == Atr(df, s.atr_length)
        natr == [k \in 1..Len(df) |-> RMul(RDiv(atr[k], close[k]), Hundred)]
        pct == V1VolatilityPercentile(natr, s.vol_length)
        ema_fast_low == Ema(close, s.fast_low)
        ema_slow_low == Ema(close, s.slow_low)
        ema_fast_med == Ema(close, s.fast_med)
        ema_slow_med == Ema(close, s.slow_med)
        ema_fast_high == Ema(close, s.fast_high)
        ema_slow_high == Ema(close, s.slow_high)
        regime(k) == V1SelectRegime(pct[k], s.low_pct, s.high_pct)
    IN  [k \in 1..Len(df) |->
            [timestamp |-> df[k].timestamp, high |-> df[k].high,
             low |-> df[k].low, close |-> df[k].close,
             atr |-> atr[k], normalized_atr |-> natr[k], vol_percentile |-> pct[k],
             ema_fast |-> IF regime(k) = "low" THEN ema_fast_low[k]
                          ELSE IF regime(k) = "high" THEN ema_fast_high[k]
                          ELSE ema_fast_med[k],
             ema_slow |-> IF regime(k) = "low" THEN ema_slow_low[k]
                          ELSE IF regime(k) = "high" THEN ema_slow_high[k]
                          ELSE ema_slow_med[k],
             volatility_regime |-> regime(k)]]

(* generate_signals reading the bar after idx where there is one *)
V1GenerateSignalsAhead(frame, i) ==
    IF i + 2 > Len(frame) THEN "NONE"
    ELSE IF RLe(ILoc(frame, i).ema_fast, ILoc(frame, i).ema_slow)
            /\ RGt(ILoc(frame, i + 1).ema_fast, ILoc(frame, i + 1).ema_slow) THEN "BUY"
    ELSE IF RGe(ILoc(frame, i).ema_fast, ILoc(frame, i).ema_slow)
            /\ RLt(ILoc(frame, i + 1).ema_fast, ILoc(frame, i + 1).ema_slow) THEN "SELL"
    ELSE "NONE"

(* generate_signals: crossover of the selected EMA pair between idx - 1 and idx *)
V1GenerateSignals(frame, i) ==
    IF i < 1 THEN "NONE"
    ELSE LET curr_fast == ILoc(frame, i).ema_fast
             curr_slow == ILoc(frame, i).ema_slow
             prev_fast == ILoc(frame, i - 1).ema_fast
             prev_slow == ILoc(frame, i - 1).ema_slow
         IN  IF IsNaN(curr_fast) \/ IsNaN(curr_slow) \/ IsNaN(prev_fast) \/ IsNaN(prev_slow)
             THEN "NONE"
             ELSE IF RLe(prev_fast, prev_slow) /\ RGt(curr_fast, curr_slow) THEN "BUY"
             ELSE IF RGe(prev_fast, prev_slow) /\ RLt(curr_fast, curr_slow) THEN "SELL"
             ELSE "NONE"

-----------------------------------------------------------------------------
(* AdaptiveEMAV2: backtesting/strategies/adaptive_ema_v2/base.py *)

(* int() of a non-negative float *)
IntOf(r) == r[1] \div r[2]

(* relative_volatility.rolling(window).apply(lambda x: (x < x.iloc[-1]).sum() / len(x) * 100) *)
V2VolPercentile(rv, window) ==
    [k \in 1..Len(rv) |->
        IF k < window THEN NaN
        ELSE RMul(Rat(Cardinality({j \in (k - window + 1)..k : RLt(rv[j], rv[k])}), window),
                  Hundred)]

(* Lines 126-135: np.where(is_high_vol, int(base * mult), base) *)
V2FastPeriod(s, is_high_vol) ==
    IF is_high_vol THEN IntOf(RMul(R(s.fast_base), s.fast_mult)) ELSE s.fast_base

V2SlowPeriod(s, is_high_vol) ==
    IF is_high_vol THEN IntOf(RMul(R(s.slow_base), s.slow_mult)) ELSE s.slow_base

(* calculate_indicators: the columns are assigned to the frame it is given *)
V2CalculateIndicators(s, df) ==
    LET atr == Atr(df, s.atr_length)
        rv == [k \in 1..Len(df) |-> RMul(RDiv(atr[k], df[k].close), Hundred)]
        pct == V2VolPercentile(rv, s.vol_length)
    IN  [k \in 1..Len(df) |->
            LET is_high_vol == RGe(pct[k], R(s.vol_threshold))
            IN  [timestamp |-> df[k].timestamp, high |-> df[k].high,
                 low |-> df[k].low, close |-> df[k].close,
                 atr |-> atr[k], relative_volatility |-> rv[k], vol_percentile |-> pct[k],
                 is_high_vol |-> is_high_vol,
                 fast_period |-> V2FastPeriod(s, is_high_vol),
                 slow_period |-> V2SlowPeriod(s, is_high_vol)]]

(* Line 147: warmup = max(self.atr_length, self.vol_length) + 10 *)
V2Warmup(s) == (IF s.atr_length >= s.vol_length THEN s.atr_length ELSE s.vol_length) + 10

(* generate_signals: the signal, and self.prev_ema_fast / self.prev_ema_slow after it *)
V2GenerateSignals(s, frame, i, pf, ps) ==
    LET warmup == V2Warmup(s)
    IN  IF i < warmup
        THEN [signal |-> "NONE", prev_ema_fast |-> pf, prev_ema_slow |-> ps]
        ELSE LET closes_up_to_now == SubSeq(Column(frame, "close"), 1, i + 1)
                 ema_fast == Ema(closes_up_to_now, ILoc(frame, i).fast_period)[i + 1]
                 ema_slow == Ema(closes_up_to_now, ILoc(frame, i).slow_period)[i + 1]
             IN  [signal |->
                     IF pf # None /\ ps # None
                     THEN IF RLe(pf, ps) /\ RGt(ema_fast, ema_slow) THEN "BUY"
                          ELSE IF RGe(pf, ps) /\ RLt(ema_fast, ema_slow) THEN "SELL"
                          ELSE "NONE"
                     ELSE "NONE",
                  prev_ema_fast |-> ema_fast,
                  prev_ema_slow |-> ema_slow]

-----------------------------------------------------------------------------
(* AdaptiveDonchianV1: backtesting/strategies/adaptive_donchian_v1/base.py *)

RECURSIVE SeqMax(_, _, _)
SeqMax(xs, lo, hi) == IF lo = hi THEN xs[lo] ELSE RMax(SeqMax(xs, lo, hi - 1), xs[hi])

RECURSIVE SeqMin(_, _, _)
SeqMin(xs, lo, hi) == IF lo = hi THEN xs[lo] ELSE RMin(SeqMin(xs, lo, hi - 1), xs[hi])

(* Series.rolling(window).max() and .min(): NaN until the window is full *)
RollingMax(xs, window) ==
    [k \in 1..Len(xs) |-> IF k < window THEN NaN ELSE SeqMax(xs, k - window + 1, k)]

RollingMin(xs, window) ==
    [k \in 1..Len(xs) |-> IF k < window THEN NaN ELSE SeqMin(xs, k - window + 1, k)]

(* Series.diff(): NaN at the first row *)
Diff(xs) == [k \in 1..Len(xs) |-> IF k = 1 THEN NaN ELSE RSub(xs[k], xs[k - 1])]

(* calculate_adx *)
CalculateAdx(s, df) ==
    LET high_diff == Diff(Column(df, "high"))
        low_diff == [k \in 1..Len(df) |-> RNeg(Diff(Column(df, "low"))[k])]
        plus_dm == [k \in 1..Len(df) |->
                       IF RGt(high_diff[k], low_diff[k]) /\ RGt(high_diff[k], Zero)
                       THEN high_diff[k] ELSE Zero]
        minus_dm == [k \in 1..Len(df) |->
                        IF RGt(low_diff[k], high_diff[k]) /\ RGt(low_diff[k], Zero)
                        THEN low_diff[k] ELSE Zero]
        plus_dm_smooth == Ema(plus_dm, s.adx_length)
        minus_dm_smooth == Ema(minus_dm, s.adx_length)
        atr == Atr(df, s.atr_length)
        plus_di == [k \in 1..Len(df) |-> RDiv(RMul(Hundred, plus_dm_smooth[k]), atr[k])]
        minus_di == [k \in 1..Len(df) |-> RDiv(RMul(Hundred, minus_dm_smooth[k]), atr[k])]
        dx == [k \in 1..Len(df) |->
                  RDiv(RMul(Hundred, RAbs(RSub(plus_di[k], minus_di[k]))),
                       RAdd(plus_di[k], minus_di[k]))]
    IN  Ema(dx, s.adx_length)

(* calculate_indicators: the columns are assigned to the frame it is given *)
DonchianCalculateIndicators(s, df) ==
    LET donchian_high == RollingMax(Column(df, "high"), s.donchian_length)
        donchian_low == RollingMin(Column(df, "low"), s.donchian_length)
        atr == Atr(df, s.atr_length)
        adx == CalculateAdx(s, df)
    IN  [k \in 1..Len(df) |->
            [timestamp |-> df[k].timestamp, high |-> df[k].high,
             low |-> df[k].low, close |-> df[k].close,
             donchian_high |-> donchian_high[k], donchian_low |-> donchian_low[k],
             atr |-> atr[k], adx |-> adx[k],
             breakout_threshold |-> RAdd(donchian_high[k], RMul(atr[k], s.atr_multiplier))]]

(* Line 148: warmup = max(self.donchian_length, self.atr_length, self.adx_length) + 10 *)
DonchianWarmup(s) == Max3(s.donchian_length, s.atr_length, s.adx_length) + 10

(* generate_signals: breakout of the previous bar's channel; reads self.position *)
DonchianGenerateSignals(s, frame, i, pos) ==
    LET warmup == DonchianWarmup(s)
    IN  IF i < warmup THEN "NONE"
        ELSE LET current_bar == ILoc(frame, i)
                 prev_bar == ILoc(frame, i - 1)
             IN  IF pos = Zero
                 THEN IF RGt(current_bar.high, prev_bar.breakout_threshold)
                         /\ RGe(current_bar.adx, s.adx_threshold)
                      THEN "BUY" ELSE "NONE"
                 ELSE IF RGt(pos, Zero)
                 THEN IF RLt(current_bar.low, prev_bar.donchian_low) THEN "SELL" ELSE "NONE"
                 ELSE "NONE"

-----------------------------------------------------------------------------
(* The strategy classes behind BaseStrategy's abstract methods *)

AnyStrategy == [class |-> "BaseStrategy"]

(* self.calculate_indicators(data): the frame run() goes on with *)
CalculateIndicators(s, df) ==
    CASE s.class = "AdaptiveEmaV1Strategy" -> V1CalculateIndicators(s, df)
      [] s.class = "AdaptiveEMAV2" -> V2CalculateIndicators(s, df)
      [] s.class = "AdaptiveDonchianV1" -> DonchianCalculateIndicators(s, df)
      [] OTHER -> df

(* Whether calculate_indicators assigns its columns to the frame it was given *)
WritesToInput(s) == s.class \in {"AdaptiveEMAV2", "AdaptiveDonchianV1"}

(* self.generate_signals(data, idx): the outcomes, each a signal and the    *)
(* crossover memory it leaves.  For BaseStrategy itself the method is       *)
(* abstract: any signal.                                                    *)
GenerateSignals(s, frame, i, pos, pf, ps) ==
    CASE s.class = "AdaptiveEmaV1Strategy" ->
             {[signal |-> V1GenerateSignals(frame, i),
               prev_ema_fast |-> pf, prev_ema_slow |-> ps]}
      [] s.class = "AdaptiveEMAV2" -> {V2GenerateSignals(s, frame, i, pf, ps)}
      [] s.class = "AdaptiveDonchianV1" ->
             {[signal |-> DonchianGenerateSignals(s, frame, i, pos),
               prev_ema_fast |-> pf, prev_ema_slow |-> ps]}
      [] OTHER -> {[signal |-> x, prev_ema_fast |-> pf, prev_ema_slow |-> ps] : x \in Signals}

-----------------------------------------------------------------------------
(* BaseStrategy.run as a state machine *)

(* Lines 53-67: reset, calculate_indicators, the initial equity point.     *)
(* calculate_indicators returns the frame the loop reads; the subclasses    *)
(* that add their columns to the frame they are given change the caller's.  *)
Run ==
    /\ pc \in {"idle", "done", "raised"}
    /\ calls_left > 0
    /\ calls_left' = calls_left - 1
    /\ capital' = initial_capital
    /\ position' = Zero
    /\ entry_price' = Zero
    /\ trades' = <<>>
    /\ indicators' = CalculateIndicators(strategy, data)
    /\ data' = IF WritesToInput(strategy) THEN indicators' ELSE data
    /\ equity_curve' = <<[timestamp |-> ILoc(indicators', 0).timestamp,
                          equity |-> initial_capital]>>
    /\ idx' = 0
    /\ signal' = "NONE"
    /\ metrics' = NoMetrics
    /\ pc' = "loop"
    /\ UNCHANGED <<strategy, initial_capital, legacyVars, optVars, prev_ema_fast, prev_ema_slow,
                   returned>>

(* Lines 75-78: what the loop body does to the ledger for a signal *)
OnSignal(sig, bar, pos, entry, cap, trs) ==
    LET br == Branch(sig, pos)
    IN  IF br = "buy" THEN ExecuteBuy(bar, cap, trs)
        ELSE IF br = "sell" THEN ExecuteSell(bar, pos, entry, trs)
        ELSE [position |-> pos, entry_price |-> entry, capital |-> cap, trades |-> trs]

(* Lines 70-85: one iteration of the loop, for the signal generate_signals returned *)
LoopBody(sig) ==
    /\ pc = "loop"
    /\ idx < Len(indicators)
    /\ LET bar == ILoc(indicators, idx)
           after == OnSignal(sig, bar, position, entry_price, capital, trades)
       IN  /\ position' = after.position
           /\ entry_price' = after.entry_price
           /\ capital' = after.capital
           /\ trades' = after.trades
           /\ equity_curve' = Append(equity_curve,
                  [timestamp |-> bar.timestamp,
                   equity |-> CalculateEquity(bar, after.position, after.capital)])
    /\ signal' = sig
    /\ idx' = idx + 1
    /\ UNCHANGED <<data, strategy, initial_capital, pc, metrics, indicators, legacyVars, optVars,
                   calls_left, returned>>

(* Line 72 and the loop body: generate_signals of the object's class, which *)
(* may also write the object's crossover memory                             *)
Step ==
    /\ pc = "loop"
    /\ idx < Len(indicators)
    /\ \E g \in GenerateSignals(strategy, indicators, idx, position,
                                prev_ema_fast, prev_ema_slow) :
           /\ LoopBody(g.signal)
           /\ prev_ema_fast' = g.prev_ema_fast
           /\ prev_ema_slow' = g.prev_ema_slow

(* run() without lines 87-89 *)
ForceCloseMissing ==
    /\ pc = "loop"
    /\ idx = Len(indicators)
    /\ pc' = "metrics"
    /\ UNCHANGED <<data, strategy, initial_capital, capital, position, entry_price,
                   trades, equity_curve, idx, signal, metrics, indicators, legacyVars, optVars,
                   objectVars>>

(* Lines 87-89: the position still open after the loop is sold at data.iloc[-1] *)
ForceClose ==
    /\ pc = "loop"
    /\ idx = Len(indicators)
    /\ IF RGt(position, Zero)
       THEN LET after == ExecuteSell(ILast(indicators), position, entry_price, trades)
            IN  /\ position' = after.position
                /\ entry_price' = after.entry_price
                /\ capital' = after.capital
                /\ trades' = after.trades
       ELSE UNCHANGED <<position, entry_price, capital, trades>>
    /\ pc' = "metrics"
    /\ UNCHANGED <<data, strategy, initial_capital, equity_curve, idx, signal, metrics,
                   indicators, legacyVars, optVars, objectVars>>

(* Line 92: _calculate_metrics; trades_df['type'] is a KeyError on an empty *)
(* DataFrame, which has no columns (lines 160-161)                          *)
Metrics ==
    /\ pc = "metrics"
    /\ IF trades = <<>>
       THEN /\ metrics' = [error |-> "KeyError"]
            /\ pc' = "raised"
       ELSE /\ metrics' = CalculateMetrics(indicators, equity_curve, capital,
                                           initial_capital, trades)
            /\ pc' = "done"
    /\ returned' = Append(returned, [metrics |-> metrics', trades |-> trades,
                                     equity_curve |-> equity_curve,
                                     prev_ema_fast |-> prev_ema_fast,
                                     prev_ema_slow |-> prev_ema_slow])
    /\ UNCHANGED <<data, strategy, initial_capital, capital, position, entry_price,
                   trades, equity_curve, idx, signal, indicators, legacyVars, optVars,
                   prev_ema_fast, prev_ema_slow, calls_left>>

(* No sweep is running and no library function has been called *)
(* No cache built, no walk-forward and no compiled loop started *)
LaterIdle ==
    /\ ema_cache = <<>>
    /\ vol_cache = <<>>
    /\ train_period_days = 0
    /\ test_period_days = 0
    /\ current_idx = 0
    /\ trade_count = 0

OptIdle ==
    /\ optimizer = None
    /\ total_combinations = 0
    /\ evaluated = <<>>
    /\ tested_count = 0
    /\ valid_count = 0
    /\ skipped_count = 0
    /\ best_result = None
    /\ results = <<>>
    /\ sweep_pc = "idle"
    /\ call = None
    /\ ret = None
    /\ LaterIdle

(* The part of the state a BaseStrategy run does not use *)
LegacyIdle ==
    /\ equity = Zero
    /\ peak_equity = Zero
    /\ max_drawdown = Zero
    /\ early_return = Zero

Init ==
    /\ data \in AnySeries
    /\ strategy = AnyStrategy
    /\ initial_capital = R(DefaultCapital)
    /\ capital = R(DefaultCapital)
    /\ position = Zero
    /\ entry_price = Zero
    /\ trades = <<>>
    /\ equity_curve = <<>>
    /\ idx = 0
    /\ signal = "NONE"
    /\ pc = "idle"
    /\ metrics = NoMetrics
    /\ indicators = None
    /\ prev_ema_fast = None
    /\ prev_ema_slow = None
    /\ calls_left = 1
    /\ returned = <<>>
    /\ LegacyIdle
    /\ OptIdle

Next == Run \/ Step \/ ForceClose \/ Metrics

Spec == Init /\ [][Next]_vars

-----------------------------------------------------------------------------
(* run() on objects of the strategy classes, called twice on the same object *)

(* Free bars at the end of a series, and their price levels *)
SigTail == 3
SigPrice == 3

V1Strategy(fl, sl, fm, sm, fh, sh) ==
    [class |-> "AdaptiveEmaV1Strategy",
     fast_low |-> fl, slow_low |-> sl, fast_med |-> fm, slow_med |-> sm,
     fast_high |-> fh, slow_high |-> sh,
     atr_length |-> 1, vol_length |-> 2, low_pct |-> 25, high_pct |-> 73]

V2Strategy(fb, sb, fmul, smul) ==
    [class |-> "AdaptiveEMAV2",
     fast_base |-> fb, slow_base |-> sb, fast_mult |-> fmul, slow_mult |-> smul,
     atr_length |-> 1, vol_threshold |-> 50, vol_length |-> 2]

DonchianStrategy(dl, al, mult, xl, thr) ==
    [class |-> "AdaptiveDonchianV1",
     donchian_length |-> dl, atr_length |-> al, atr_multiplier |-> mult,
     adx_length |-> xl, adx_threshold |-> thr]

(* Parameter sets the constructors accept: fast < slow in every regime,     *)
(* multipliers >= 1.0, Donchian and ATR lengths >= 5                        *)
SigStrategies ==
    {V1Strategy(1, 3, 1, 7, 3, 7),
     V2Strategy(1, 3, R(3), Rat(5, 2)),
     DonchianStrategy(5, 5, Rat(1, 2), 5, R(20))}

(* Flat bars before the free ones: enough for the windows to be full *)
Lead(s) ==
    CASE s.class = "AdaptiveEmaV1Strategy" -> s.vol_length - 1
      [] s.class = "AdaptiveEMAV2" -> V2Warmup(s)
      [] s.class = "AdaptiveDonchianV1" -> DonchianWarmup(s)

SigSeries(s) ==
    UNION {{FlatBars([k \in 1..(Lead(s) + n) |->
                         IF k <= Lead(s) THEN p0 ELSE tail[k - Lead(s)]])
                : p0 \in 1..SigPrice, tail \in [1..n -> 1..SigPrice]}
           : n \in 1..SigTail}

InitSig ==
    /\ strategy \in SigStrategies
    /\ data \in SigSeries(strategy)
    /\ initial_capital = R(DefaultCapital)
    /\ capital = initial_capital
    /\ position = Zero
    /\ entry_price = Zero
    /\ trades = <<>>
    /\ equity_curve = <<>>
    /\ idx = 0
    /\ signal = "NONE"
    /\ pc = "idle"
    /\ metrics = NoMetrics
    /\ indicators = None
    /\ prev_ema_fast = None
    /\ prev_ema_slow = None
    /\ calls_left = 2
    /\ returned = <<>>
    /\ LegacyIdle
    /\ OptIdle

SpecSig == InitSig /\ [][Next]_vars

-----------------------------------------------------------------------------
(* python/backtest.py: calculate_volatility_rank, get_volatility_regime, run_strategy *)

(* Bars a window needs before a rank is computed: `if len(window) < 20` *)
MinWindow == 20

CountLe(xs, lo, hi, v) == Cardinality({j \in lo..hi : RLe(xs[j], v)})

(* calculate_volatility_rank; i is 1-based here, the window is xs[start..i] *)
CalculateVolatilityRank(natr, volatility_length) ==
    [i \in 1..Len(natr) |->
        LET start == IF i - volatility_length + 1 > 1 THEN i - volatility_length + 1 ELSE 1
            n == i - start + 1
        IN  IF n < MinWindow THEN Zero
            ELSE Rat(CountLe(natr, start, i, natr[i]) * 100, n)]

(* get_volatility_regime *)
GetVolatilityRegime(vol_rank, low_percentile, high_percentile) ==
    IF RLt(vol_rank, R(low_percentile)) THEN "LOW"
    ELSE IF RLt(vol_rank, R(high_percentile)) THEN "MEDIUM"
    ELSE "HIGH"

(* Lines 110-127: the arrays run_strategy computes before its loop *)
RsIndicators(df, params) ==
    LET closes == Column(df, "close")
    IN  [vol_ranks |-> CalculateVolatilityRank(NormalizedAtr(df, params.atr_length),
                                               params.volatility_length),
         ema_low_fast |-> Ema(closes, params.fast_length_low),
         ema_low_slow |-> Ema(closes, params.slow_length_low),
         ema_med_fast |-> Ema(closes, params.fast_length_med),
         ema_med_slow |-> Ema(closes, params.slow_length_med),
         ema_high_fast |-> Ema(closes, params.fast_length_high),
         ema_high_slow |-> Ema(closes, params.slow_length_high),
         start_idx |-> Max3(params.slow_length_low, params.slow_length_med,
                            params.slow_length_high)]

(* Lines 149-164: the EMA pair of the regime, at Python index i and i - 1 *)
RsSelect(ind, regime, i) ==
    IF regime = "LOW"
    THEN [fast_ema |-> ind.ema_low_fast[i + 1], slow_ema |-> ind.ema_low_slow[i + 1],
          prev_fast |-> ind.ema_low_fast[i], prev_slow |-> ind.ema_low_slow[i]]
    ELSE IF regime = "MEDIUM"
    THEN [fast_ema |-> ind.ema_med_fast[i + 1], slow_ema |-> ind.ema_med_slow[i + 1],
          prev_fast |-> ind.ema_med_fast[i], prev_slow |-> ind.ema_med_slow[i]]
    ELSE [fast_ema |-> ind.ema_high_fast[i + 1], slow_ema |-> ind.ema_high_slow[i + 1],
          prev_fast |-> ind.ema_high_fast[i], prev_slow |-> ind.ema_high_slow[i]]

(* The bearish test written as a negation: true when a previous value is NaN *)
BearishCrossNegated(e) == ~RLt(e.prev_fast, e.prev_slow) /\ RLt(e.fast_ema, e.slow_ema)

(* Lines 171-172 *)
BullishCross(e) == RLe(e.prev_fast, e.prev_slow) /\ RGt(e.fast_ema, e.slow_ema)
BearishCross(e) == RGe(e.prev_fast, e.prev_slow) /\ RLt(e.fast_ema, e.slow_ema)

(* Lines 102-139: indicators and the initial values of the locals *)
RsStart ==
    /\ pc = "idle"
    /\ indicators' = RsIndicators(data, strategy.params)
    /\ idx' = indicators'.start_idx
    /\ trades' = <<>>
    /\ position' = None
    /\ capital' = initial_capital
    /\ equity' = initial_capital
    /\ equity_curve' = <<>>
    /\ peak_equity' = initial_capital
    /\ max_drawdown' = Zero
    /\ early_return' = Zero
    /\ pc' = "rs_loop"
    /\ UNCHANGED <<data, strategy, initial_capital, entry_price, signal, metrics,
                   objectVars, optVars>>

(* Lines 141-223: one iteration of `for i in range(start_idx, len(df) - 1)` *)
RsIter ==
    /\ pc = "rs_loop"
    /\ idx < Len(data) - 1
    /\ LET i == idx
           regime == GetVolatilityRegime(indicators.vol_ranks[i + 1],
                                         strategy.params.low_vol_percentile,
                                         strategy.params.high_vol_percentile)
           e == RsSelect(indicators, regime, i)
           skip == \/ IsNaN(indicators.vol_ranks[i + 1])
                   \/ IsNaN(e.fast_ema)
                   \/ IsNaN(e.slow_ema)
           current_price == data[i + 1].close
           entered == IF BullishCross(e) /\ position = None
                      THEN [entry_price |-> current_price,
                            entry_date |-> data[i + 1].timestamp,
                            shares |-> RDiv(equity, current_price),
                            regime |-> regime]
                      ELSE position
           exits == BearishCross(e) /\ entered # None
           pnl == IF exits
                  THEN RMul(RSub(current_price, entered.entry_price), entered.shares)
                  ELSE Zero
           equity1 == RAdd(equity, pnl)
           position1 == IF exits THEN None ELSE entered
           current_equity ==
               IF position1 # None
               THEN RAdd(equity1, RMul(RSub(current_price, position1.entry_price),
                                       position1.shares))
               ELSE equity1
           peak1 == IF RGt(current_equity, peak_equity) THEN current_equity
                    ELSE peak_equity
           drawdown == RMul(RDiv(RSub(peak1, current_equity), peak1), Hundred)
       IN  IF skip
           THEN /\ signal' = "SKIP"
                /\ UNCHANGED <<trades, position, equity, equity_curve, peak_equity,
                               max_drawdown, early_return>>
           ELSE /\ signal' = IF BullishCross(e) THEN "BUY"
                             ELSE IF BearishCross(e) THEN "SELL" ELSE "NONE"
                /\ position' = position1
                /\ equity' = equity1
                /\ trades' = IF exits
                             THEN Append(trades,
                                    [entry_date |-> entered.entry_date,
                                     exit_date |-> data[i + 1].timestamp,
                                     entry_price |-> entered.entry_price,
                                     exit_price |-> current_price,
                                     shares |-> entered.shares,
                                     pnl |-> pnl,
                                     pnl_percent |->
                                         RMul(RDiv(RSub(current_price, entered.entry_price),
                                                   entered.entry_price), Hundred),
                                     regime |-> entered.regime])
                             ELSE trades
                /\ equity_curve' = Append(equity_curve, current_equity)
                /\ peak_equity' = peak1
                /\ max_drawdown' = IF RGt(drawdown, max_drawdown) THEN drawdown
                                   ELSE max_drawdown
                /\ early_return' =
                       IF i = Len(data) \div 2
                       THEN RMul(RDiv(RSub(current_equity, initial_capital),
                                      initial_capital), Hundred)
                       ELSE early_return
    /\ idx' = idx + 1
    /\ UNCHANGED <<data, strategy, initial_capital, capital, entry_price, pc, metrics,
                   indicators, objectVars, optVars>>

(* Lines 225-278: the position still open is closed at closes[-1]; statistics *)
RsFinish ==
    /\ pc = "rs_loop"
    /\ idx >= Len(data) - 1
    /\ LET final_price == ILast(data).close
           open == position # None
           pnl == IF open
                  THEN RMul(RSub(final_price, position.entry_price), position.shares)
                  ELSE Zero
           final_equity == RAdd(equity, pnl)
           all_trades ==
               IF open
               THEN Append(trades,
                      [entry_date |-> position.entry_date,
                       exit_date |-> ILast(data).timestamp,
                       entry_price |-> position.entry_price,
                       exit_price |-> final_price,
                       shares |-> position.shares,
                       pnl |-> pnl,
                       pnl_percent |->
                           RMul(RDiv(RSub(final_price, position.entry_price),
                                     position.entry_price), Hundred),
                       regime |-> position.regime])
               ELSE trades
           winning == Len(SelectSeq(all_trades, LAMBDA t : RGt(t.pnl, Zero)))
           losing == Len(SelectSeq(all_trades, LAMBDA t : RLe(t.pnl, Zero)))
       IN  /\ equity' = final_equity
           /\ trades' = all_trades
           /\ metrics' = [total_trades |-> Len(all_trades),
                          winning_trades |-> winning,
                          losing_trades |-> losing,
                          win_rate |-> IF Len(all_trades) > 0
                                       THEN Rat(winning * 100, Len(all_trades)) ELSE Zero,
                          total_return |-> RMul(RDiv(RSub(final_equity, initial_capital),
                                                     initial_capital), Hundred),
                          final_equity |-> final_equity,
                          max_drawdown |-> max_drawdown,
                          early_return |-> early_return]
    /\ pc' = "rs_done"
    /\ UNCHANGED <<data, strategy, initial_capital, capital, position, entry_price,
                   equity_curve, idx, signal, indicators, peak_equity, max_drawdown,
                   early_return, objectVars, optVars>>

(* Bars of a run_strategy input *)
RsBars == 6

RsParams(fl, sl, fm, sm, fh, sh) ==
    [fast_length_low |-> fl, slow_length_low |-> sl,
     fast_length_med |-> fm, slow_length_med |-> sm,
     fast_length_high |-> fh, slow_length_high |-> sh,
     volatility_length |-> 3, atr_length |-> 1,
     low_vol_percentile |-> 28, high_vol_percentile |-> 66]

RsStrategies ==
    {[class |-> "run_strategy", params |-> ps] :
        ps \in {RsParams(1, 3, 1, 3, 1, 3), RsParams(1, 2, 1, 3, 2, 4)}}

InitRS ==
    /\ data \in UNION {SeriesOfLen(n) : n \in 1..RsBars}
    /\ strategy \in RsStrategies
    /\ initial_capital = R(DefaultCapital)
    /\ capital = R(DefaultCapital)
    /\ position = None
    /\ entry_price = Zero
    /\ trades = <<>>
    /\ equity_curve = <<>>
    /\ idx = 0
    /\ signal = "NONE"
    /\ pc = "idle"
    /\ metrics = NoMetrics
    /\ indicators = None
    /\ prev_ema_fast = None
    /\ prev_ema_slow = None
    /\ calls_left = 1
    /\ returned = <<>>
    /\ LegacyIdle
    /\ OptIdle

NextRS == RsStart \/ RsIter \/ RsFinish

SpecRS == InitRS /\ [][NextRS]_vars

-----------------------------------------------------------------------------
(* Properties of BaseStrategy.run, for any signal sequence *)

Finished == pc \in {"metrics", "done", "raised"}

OpenPositions(trs) == Len(BuyTrades(trs)) - Len(SellTrades(trs))

Ledger == <<capital, position, entry_price, trades>>

(* C1: at most one position is open; a BUY changes the ledger only when flat, *)
(* a SELL only when long; a BUY while long and a SELL while flat leave        *)
(* capital, position, entry price and trades unchanged.                       *)
C1_SignalGating ==
    [][(pc = "loop" /\ idx' = idx + 1) =>
          /\ (signal' = "BUY" /\ RGt(position, Zero) => UNCHANGED Ledger)
          /\ (signal' = "SELL" /\ position = Zero => UNCHANGED Ledger)
          /\ (signal' = "NONE" => UNCHANGED Ledger)
          /\ (trades' # trades =>
                 \/ signal' = "BUY" /\ position = Zero /\ RGt(position', Zero)
                 \/ signal' = "SELL" /\ RGt(position, Zero) /\ position' = Zero)
          /\ OpenPositions(trades') \in {0, 1}]_vars

C1_Witness ==
    /\ pc = "loop"
    /\ signal = "BUY"
    /\ Len(trades) = 1
    /\ idx >= 2
    /\ trades[1].timestamp < ILoc(data, idx - 1).timestamp

(* C2: after run, the trade list holds as many BUY records as SELL records. *)
C2_TradePairing ==
    Finished => Len(BuyTrades(trades)) = Len(SellTrades(trades))

C2_Witness ==
    /\ pc = "done"
    /\ Len(BuyTrades(trades)) = 2
    /\ signal = "NONE"
    /\ trades[Len(trades)].timestamp = ILast(data).timestamp

(* C3: after run, the i-th SELL's timestamp is strictly after the i-th BUY's, *)
(* also for a BUY on the final bar closed by the forced liquidation.         *)
C3_SellStrictlyAfterBuy ==
    Finished =>
        \A i \in 1..Len(SellTrades(trades)) :
            /\ i <= Len(BuyTrades(trades))
            /\ SellTrades(trades)[i].timestamp > BuyTrades(trades)[i].timestamp

(* C4: a position open after the last bar is closed by exactly one further  *)
(* SELL record at the final close, capital = shares * final close, and the  *)
(* run ends flat; with no position open nothing is appended.                *)
C4_ForcedLiquidation ==
    [][(pc = "loop" /\ pc' = "metrics") =>
          IF RGt(position, Zero)
          THEN /\ Len(trades') = Len(trades) + 1
               /\ SubSeq(trades', 1, Len(trades)) = trades
               /\ trades'[Len(trades')].type = "SELL"
               /\ trades'[Len(trades')].price = ILast(data).close
               /\ trades'[Len(trades')].shares = position
               /\ capital' = RMul(position, ILast(data).close)
               /\ position' = Zero
          ELSE /\ trades' = trades
               /\ capital' = capital
               /\ position' = Zero]_vars

C4_Witness ==
    /\ pc = "metrics"
    /\ signal = "NONE"
    /\ trades # <<>>
    /\ trades[Len(trades)].type = "SELL"
    /\ trades[Len(trades)].timestamp = ILast(data).timestamp
    /\ capital # initial_capital

(* C5: the equity curve has one initial point equal to the initial capital  *)
(* and one point per bar in bar order (n + 1 after n bars); a bar's point   *)
(* is the capital when flat and shares * close when a position is open.     *)
C5_EquityCurve ==
    pc # "idle" =>
        /\ Len(equity_curve) = idx + 1
        /\ (Finished => idx = Len(data))
        /\ equity_curve[1] = [timestamp |-> data[1].timestamp,
                              equity |-> initial_capital]
        /\ \A i \in 1..idx : equity_curve[i + 1].timestamp = data[i].timestamp
        /\ (pc = "loop" /\ idx >= 1 =>
               equity_curve[idx + 1].equity =
                   IF RGt(position, Zero) THEN RMul(position, data[idx].close)
                   ELSE capital)

C5_Witness ==
    /\ pc = "done"
    /\ Len(equity_curve) = Len(data) + 1
    /\ Len(data) >= 3
    /\ \E i \in 1..Len(equity_curve) : equity_curve[i].equity # initial_capital

NonDecreasing(eqc) ==
    \A i \in 1..(Len(eqc) - 1) : RLe(eqc[i].equity, eqc[i + 1].equity)

(* C10: the reported max_drawdown is >= 0, and 0 exactly when the equity    *)
(* curve never decreases.                                                   *)
C10_DrawdownNonNegative ==
    pc = "done" =>
        /\ RGe(metrics.max_drawdown, Zero)
        /\ (metrics.max_drawdown = Zero <=> NonDecreasing(equity_curve))

-----------------------------------------------------------------------------
(* Metric consistency *)

(* total_return from the endpoints of an equity series: (E_final - E_0) / E_0 * 100 *)
EndpointReturn(first, last) == RMul(RDiv(RSub(last, first), first), Hundred)

(* C9: after a completed run the total return from the first and last       *)
(* equity points equals the total return from the final capital; the last   *)
(* equity point equals the final capital, forced liquidation included.      *)
C9_MetricConsistency ==
    /\ pc = "done" =>
          /\ equity_curve[Len(equity_curve)].equity = metrics.final_capital
          /\ EndpointReturn(equity_curve[1].equity,
                            equity_curve[Len(equity_curve)].equity)
                 = metrics.total_return
    /\ (pc = "rs_done" /\ equity_curve # <<>>) =>
          /\ equity_curve[Len(equity_curve)] = metrics.final_equity
          /\ EndpointReturn(equity_curve[1], equity_curve[Len(equity_curve)])
                 = metrics.total_return

-----------------------------------------------------------------------------
(* Properties of the strategy classes' signals *)

(* The OHLC columns of a frame, without the indicator columns *)
Bars(df) ==
    [k \in 1..Len(df) |-> [timestamp |-> df[k].timestamp, high |-> df[k].high,
                           low |-> df[k].low, close |-> df[k].close]]

(* The crossover memory the object had when the current call of run() began *)
MemoryAtCall ==
    IF returned = <<>> THEN [prev_ema_fast |-> None, prev_ema_slow |-> None]
    ELSE [prev_ema_fast |-> returned[Len(returned)].prev_ema_fast,
          prev_ema_slow |-> returned[Len(returned)].prev_ema_slow]

(* run() of an object of class s with memory mem on frame, after t bars: the *)
(* ledger, the memory and the last signal                                   *)
RECURSIVE Replay(_, _, _, _, _)
Replay(s, frame, init, mem, t) ==
    IF t = 0
    THEN [position |-> Zero, entry_price |-> Zero, capital |-> init, trades |-> <<>>,
          prev_ema_fast |-> mem.prev_ema_fast, prev_ema_slow |-> mem.prev_ema_slow,
          signal |-> "NONE"]
    ELSE LET st == Replay(s, frame, init, mem, t - 1)
             g == CHOOSE x \in GenerateSignals(s, frame, t - 1, st.position,
                                               st.prev_ema_fast, st.prev_ema_slow) : TRUE
             after == OnSignal(g.signal, ILoc(frame, t - 1), st.position, st.entry_price,
                               st.capital, st.trades)
         IN  [position |-> after.position, entry_price |-> after.entry_price,
              capital |-> after.capital, trades |-> after.trades,
              prev_ema_fast |-> g.prev_ema_fast, prev_ema_slow |-> g.prev_ema_slow,
              signal |-> g.signal]

(* The signal at bar i of a run on the first i + 1 bars only *)
TruncatedSignal(i) ==
    Replay(strategy, CalculateIndicators(strategy, SubSeq(Bars(data), 1, i + 1)),
           initial_capital, MemoryAtCall, i + 1).signal

(* C7: the signal at bar i of a run on the full series equals the signal at *)
(* bar i of a run of the same object on the series truncated after bar i.   *)
C7_TruncationInvariance ==
    (pc = "loop" /\ idx >= 1) => signal = TruncatedSignal(idx - 1)

C7_Witness ==
    /\ pc = "loop"
    /\ idx >= 1
    /\ idx < Len(data)
    /\ signal = "BUY"
    /\ ILoc(data, idx).close # ILoc(data, idx - 1).close

(* C6: two calls of run() on the same object with the same bars return the  *)
(* same trade list, equity curve and metrics.                               *)
C6_RepeatableRun ==
    Len(returned) = 2 =>
        /\ returned[1].trades = returned[2].trades
        /\ returned[1].equity_curve = returned[2].equity_curve
        /\ returned[1].metrics = returned[2].metrics

(* The largest of a set of periods *)
MaxOf(S) == CHOOSE m \in S : \A x \in S : x <= m

(* Warmup horizon: the maximum of all indicator periods the variant uses,   *)
(* plus the variant's buffer                                                *)
WarmupHorizon(s) ==
    CASE s.class = "AdaptiveEmaV1Strategy" ->
             MaxOf({s.fast_low, s.slow_low, s.fast_med, s.slow_med, s.fast_high,
                    s.slow_high, s.atr_length, s.vol_length})
      [] s.class = "AdaptiveEMAV2" ->
             MaxOf({s.fast_base, s.slow_base, IntOf(RMul(R(s.fast_base), s.fast_mult)),
                    IntOf(RMul(R(s.slow_base), s.slow_mult)), s.atr_length,
                    s.vol_length}) + 10
      [] s.class = "AdaptiveDonchianV1" ->
             MaxOf({s.donchian_length, s.atr_length, s.adx_length}) + 10

(* C8: at every bar index below the warmup horizon the signal is NONE and   *)
(* no trade is opened or closed.                                            *)
C8_WarmupSafety ==
    (pc = "loop" /\ idx >= 1 /\ idx - 1 < WarmupHorizon(strategy)) =>
        /\ signal = "NONE"
        /\ trades = <<>>

-----------------------------------------------------------------------------
(* Runs without a trade *)

(* C11: a run in which no trade occurs returns a valid result, without      *)
(* raising: num_trades = 0, win_rate = 0, total_return = 0 and the final    *)
(* capital equal to the initial capital.                                    *)
C11_ZeroTradeRun ==
    (pc \in {"done", "raised"} /\ trades = <<>>) =>
        /\ pc = "done"
        /\ metrics.num_trades = 0
        /\ metrics.win_rate = Zero
        /\ metrics.total_return = Zero
        /\ metrics.final_capital = initial_capital

-----------------------------------------------------------------------------
(* Parameter sweeps: python/optimize.py and python/optimize_numba.py        *)
(* optimize_ticker, quantconnect/optimize.py grid_search.  What one         *)
(* evaluation yields (an exception, or the statistics of the simulation) is *)
(* the input of each iteration.                                             *)

(* Combinations of a sweep *)
MaxCombos == 3

(* No simulation is running *)
RunIdle ==
    /\ data = <<>>
    /\ strategy = None
    /\ initial_capital = R(DefaultCapital)
    /\ capital = initial_capital
    /\ position = Zero
    /\ entry_price = Zero
    /\ trades = <<>>
    /\ equity_curve = <<>>
    /\ idx = 0
    /\ signal = "NONE"
    /\ pc = "idle"
    /\ metrics = NoMetrics
    /\ indicators = None
    /\ prev_ema_fast = None
    /\ prev_ema_slow = None
    /\ calls_left = 0
    /\ returned = <<>>
    /\ LegacyIdle

(* The statistics a simulation can return to the sweep *)
SweepResults ==
    [total_return : {NaN, R(10), R(20)},
     total_trades : {1, 5},
     max_drawdown : {Zero, R(10), R(60)},
     early_return : {R(-30), Zero},
     win_rate : {R(50)},
     profit_factor : {Rat(3, 2)}]

(* calculate_sharpe_ratio of optimize.py divides by a standard deviation    *)
(* and takes a square root: its value is an input.  It is NaN when the      *)
(* equity curve holds a NaN (a bar without a close while a position is open) *)
SharpeRatios == {Zero, NaN}

(* np.clip(x, lo, hi): NaN stays NaN *)
Clip(x, lo, hi) == IF IsNaN(x) THEN NaN ELSE RMin(RMax(x, lo), hi)

(* calculate_score: the same in optimize.py and optimize_numba.py *)
CalculateScore(res, sharpe_ratio, calmar_ratio) ==
    LET return_score == Clip(res.total_return, Zero, Hundred)
        sharpe_score == Clip(RMul(sharpe_ratio, R(20)), Zero, Hundred)
        calmar_score == Clip(RMul(calmar_ratio, R(10)), Zero, Hundred)
        pf_score == Clip(RMul(res.profit_factor, R(20)), Zero, Hundred)
        wr_score == res.win_rate
    IN  RAdd(RAdd(RAdd(RAdd(RMul(return_score, Rat(35, 100)),
                            RMul(sharpe_score, Rat(25, 100))),
                       RMul(calmar_score, Rat(20, 100))),
                  RMul(pf_score, Rat(10, 100))),
             RMul(wr_score, Rat(10, 100)))

(* The early termination filter: not np.isfinite(total_return) or           *)
(* total_trades < min_trades or max_drawdown > 50 or early_return < floor   *)
EarlyTermination(res, min_trades, floor) ==
    \/ IsNaN(res.total_return)
    \/ res.total_trades < min_trades
    \/ RGt(res.max_drawdown, R(50))
    \/ RLt(res.early_return, R(floor))

(* calmar = total_return / max_drawdown if max_drawdown > 0 else 0 *)
Calmar(res) ==
    IF RGt(res.max_drawdown, Zero) THEN RDiv(res.total_return, res.max_drawdown) ELSE Zero

(* `if best_result is None or score > best_result['score']: best_result = result` *)
UpdateBest(best, res, score) ==
    IF best = None \/ RGt(score, best.score)
    THEN [total_return |-> res.total_return, score |-> score]
    ELSE best

(* optimize.py optimize_ticker, lines 348-415: one combination.  raises     *)
(* says where the try block raised: in run_strategy_optimized, in the       *)
(* scoring, in the progress print, or nowhere.                              *)
OptimizeIterate ==
    /\ sweep_pc = "sweep"
    /\ optimizer = "optimize"
    /\ tested_count < total_combinations
    /\ \E raises \in {"none", "run", "score", "print"}, res \in SweepResults,
          sharpe \in SharpeRatios :
        /\ tested_count' = tested_count + 1
        /\ IF raises = "run"
           THEN /\ skipped_count' = skipped_count + 1
                /\ evaluated' = Append(evaluated, [status |-> "raised"])
                /\ UNCHANGED <<valid_count, best_result>>
           ELSE IF EarlyTermination(res, 5, -10)
           THEN /\ skipped_count' = skipped_count + 1
                /\ evaluated' = Append(evaluated, [status |-> "filtered"])
                /\ UNCHANGED <<valid_count, best_result>>
           ELSE /\ valid_count' = valid_count + 1
                /\ IF raises = "score"
                   THEN /\ skipped_count' = skipped_count + 1
                        /\ evaluated' = Append(evaluated, [status |-> "raised"])
                        /\ UNCHANGED best_result
                   ELSE LET score == CalculateScore(res, sharpe, Calmar(res))
                        IN  /\ best_result' = UpdateBest(best_result, res, score)
                            /\ evaluated' = Append(evaluated,
                                                   [status |-> "valid", score |-> score])
                            /\ skipped_count' = IF raises = "print"
                                                THEN skipped_count + 1
                                                ELSE skipped_count
    /\ UNCHANGED <<runVars, callVars, laterVars, optimizer, total_combinations, results, sweep_pc>>

(* optimize_numba.py optimize_ticker, lines 377-407: one combination.       *)
(* test_single_params catches what the simulation raises and applies the    *)
(* filter; the Sharpe ratio is the constant 0.0; due says whether           *)
(* update_interval has elapsed, in which case the progress line reads       *)
(* best_result['total_return'].                                             *)
NumbaIterate ==
    /\ sweep_pc = "sweep"
    /\ optimizer = "optimize_numba"
    /\ tested_count < total_combinations
    /\ \E raises \in {"none", "run"}, res \in SweepResults, due \in BOOLEAN :
        LET skipped == raises = "run" \/ EarlyTermination(res, 2, -20)
            score == CalculateScore(res, Zero, Calmar(res))
            best == IF skipped THEN best_result ELSE UpdateBest(best_result, res, score)
        IN  /\ tested_count' = tested_count + 1
            /\ skipped_count' = IF skipped THEN skipped_count + 1 ELSE skipped_count
            /\ valid_count' = IF skipped THEN valid_count ELSE valid_count + 1
            /\ best_result' = best
            /\ evaluated' = Append(evaluated,
                   IF raises = "run" THEN [status |-> "raised"]
                   ELSE IF skipped THEN [status |-> "filtered"]
                   ELSE [status |-> "valid", score |-> score])
            /\ sweep_pc' = IF due /\ best = None THEN "aborted" ELSE "sweep"
    /\ UNCHANGED <<runVars, callVars, laterVars, optimizer, total_combinations, results>>

(* optimize_ticker after the loop, lines 417-431 (optimize.py) and 409-420  *)
(* (optimize_numba.py): the summary divides by the number of combinations,  *)
(* then best_result or None is returned                                     *)
OptimizeFinish ==
    /\ sweep_pc = "sweep"
    /\ optimizer \in {"optimize", "optimize_numba"}
    /\ tested_count = total_combinations
    /\ sweep_pc' = IF total_combinations = 0 THEN "aborted" ELSE "returned"
    /\ UNCHANGED <<runVars, callVars, laterVars, optimizer, total_combinations, evaluated,
                   tested_count, valid_count, skipped_count, best_result, results>>

(* grid_search, lines 60-70 and 73-83: one combination, in the order the    *)
(* futures complete; _run_single_backtest raises or returns the metrics     *)
GridIterate ==
    /\ sweep_pc = "sweep"
    /\ optimizer = "grid_search"
    /\ Len(evaluated) < total_combinations
    /\ \E raises \in BOOLEAN, value \in {NaN, R(1), R(2)} :
        IF raises
        THEN /\ evaluated' = Append(evaluated, [status |-> "raised"])
             /\ UNCHANGED results
        ELSE /\ evaluated' = Append(evaluated, [status |-> "valid", score |-> value])
             /\ results' = Append(results, [combo |-> Len(evaluated) + 1, metric |-> value])
    /\ UNCHANGED <<runVars, callVars, laterVars, optimizer, total_combinations, tested_count,
                   valid_count, skipped_count, best_result, sweep_pc>>

(* Where a row goes in a table sorted by metric, descending, NaN last *)
RECURSIVE InsertRow(_, _)
InsertRow(row, table) ==
    IF table = <<>> THEN <<row>>
    ELSE IF IsNaN(Head(table).metric) \/ RGt(row.metric, Head(table).metric)
    THEN <<row>> \o table
    ELSE <<Head(table)>> \o InsertRow(row, Tail(table))

(* DataFrame.sort_values(metric, ascending=False) *)
RECURSIVE SortValues(_)
SortValues(rows) ==
    IF rows = <<>> THEN <<>>
    ELSE InsertRow(rows[Len(rows)], SortValues(SubSeq(rows, 1, Len(rows) - 1)))

(* grid_search, lines 85-96: pd.DataFrame(results).sort_values(metric); a   *)
(* DataFrame built from the empty list has no column to sort by: KeyError   *)
GridFinish ==
    /\ sweep_pc = "sweep"
    /\ optimizer = "grid_search"
    /\ Len(evaluated) = total_combinations
    /\ IF results = <<>>
       THEN /\ sweep_pc' = "aborted"
            /\ UNCHANGED results
       ELSE /\ sweep_pc' = "returned"
            /\ results' = SortValues(results)
    /\ UNCHANGED <<runVars, callVars, laterVars, optimizer, total_combinations, evaluated,
                   tested_count, valid_count, skipped_count, best_result>>

InitSweep ==
    /\ RunIdle
    /\ optimizer \in {"optimize", "optimize_numba", "grid_search"}
    /\ total_combinations \in 0..MaxCombos
    /\ evaluated = <<>>
    /\ tested_count = 0
    /\ valid_count = 0
    /\ skipped_count = 0
    /\ best_result = None
    /\ results = <<>>
    /\ sweep_pc = "sweep"
    /\ call = None
    /\ ret = None
    /\ LaterIdle

NextSweep == OptimizeIterate \/ NumbaIterate \/ OptimizeFinish \/ GridIterate \/ GridFinish

SpecSweep == InitSweep /\ [][NextSweep]_vars

-----------------------------------------------------------------------------
(* Properties of the sweeps *)

(* The scores of the evaluations that passed the filters and were scored *)
ValidScores == {evaluated[k].score : k \in {j \in 1..Len(evaluated) : evaluated[j].status = "valid"}}

(* The score of what the finished sweep presents as best: best_result, or   *)
(* the first row of grid_search's table                                     *)
BestScore ==
    IF optimizer = "grid_search" THEN results[1].metric ELSE best_result.score

(* C12: when a sweep finishes, the score of the returned best result is >=  *)
(* the score of every evaluated combination that passed the filters.        *)
C12_BestIsMaximal ==
    (sweep_pc = "returned" /\ ValidScores # {}) =>
        \A sc \in ValidScores : ~IsNaN(sc) => RGe(BestScore, sc)

(* C13: a failing evaluation never aborts the sweep: once combinations have *)
(* been evaluated the sweep goes on and returns, also when all of them      *)
(* failed or none has been valid yet.                                       *)
C13_SweepNeverAborts ==
    evaluated # <<>> => sweep_pc # "aborted"

(* C14: at the end of a sweep every tested combination has been counted     *)
(* once, as valid or as filtered: tested_count = valid_count + skipped_count *)
C14_CountsAddUp ==
    (sweep_pc = "returned" /\ optimizer \in {"optimize", "optimize_numba"}) =>
        tested_count = valid_count + skipped_count

(* C15: a NaN score is never stored as best_result, and never keeps a later *)
(* finite score from becoming best_result.                                  *)
C15_NaNNeverBest ==
    optimizer \in {"optimize", "optimize_numba"} =>
        /\ best_result # None => ~IsNaN(best_result.score)
        /\ (\E sc \in ValidScores : ~IsNaN(sc)) =>
               best_result # None /\ ~IsNaN(best_result.score)

-----------------------------------------------------------------------------
(* Constructors of the strategy classes and functions called outside the    *)
(* simulation loop: a call with its arguments, then what it returned        *)

(* The object a constructor leaves, or the exception it raised *)
Constructed(class, args) == [ok |-> TRUE, class |-> class, params |-> args]
Raised(error) == [ok |-> FALSE, error |-> error]

(* AdaptiveEmaV1Strategy.__init__, lines 66-69: the checks are assert       *)
(* statements, which the interpreter executes unless it runs with -O        *)
V1Init(args, asserts) ==
    IF asserts /\ ~(/\ args.fast_low < args.slow_low
                    /\ args.fast_med < args.slow_med
                    /\ args.fast_high < args.slow_high
                    /\ args.low_pct < args.high_pct)
    THEN Raised("AssertionError")
    ELSE Constructed("AdaptiveEmaV1Strategy", args)

(* AdaptiveEMAV2.__init__, lines 66-69 *)
V2Init(args) ==
    IF args.fast_base >= args.slow_base THEN Raised("ValueError")
    ELSE IF RLt(args.fast_mult, R(1)) \/ RLt(args.slow_mult, R(1)) THEN Raised("ValueError")
    ELSE Constructed("AdaptiveEMAV2", args)

(* AdaptiveDonchianV1.__init__, lines 58-66 *)
DonchianInit(args) ==
    IF args.donchian_length < 5 THEN Raised("ValueError")
    ELSE IF args.atr_length < 5 THEN Raised("ValueError")
    ELSE IF RLt(args.atr_multiplier, Zero) THEN Raised("ValueError")
    ELSE IF RLt(args.adx_threshold, Zero) THEN Raised("ValueError")
    ELSE Constructed("AdaptiveDonchianV1", args)

(* Period pairs offered to the constructors: in order, equal, reversed *)
PeriodPairs == {<<1, 3>>, <<3, 3>>, <<7, 3>>}

V1Calls ==
    {[fn |-> "AdaptiveEmaV1Strategy", asserts |-> a,
      args |-> [fast_low |-> lo[1], slow_low |-> lo[2], fast_med |-> me[1],
                slow_med |-> me[2], fast_high |-> hi[1], slow_high |-> hi[2],
                atr_length |-> 14, vol_length |-> 63,
                low_pct |-> pc2[1], high_pct |-> pc2[2]]]
        : a \in BOOLEAN, lo \in PeriodPairs, me \in PeriodPairs, hi \in PeriodPairs,
          pc2 \in {<<25, 73>>, <<73, 25>>}}

(* The defaults of AdaptiveEMAV2 are fast_base 15, slow_base 18, fast_mult  *)
(* 2.0, slow_mult 1.4, vol_threshold 65                                     *)
V2Calls ==
    {[fn |-> "AdaptiveEMAV2",
      args |-> [fast_base |-> b[1], slow_base |-> b[2], fast_mult |-> fm, slow_mult |-> sm,
                atr_length |-> 12, vol_threshold |-> vt, vol_length |-> 50]]
        : b \in PeriodPairs \cup {<<15, 18>>},
          fm \in {Rat(1, 2), R(1), R(2)}, sm \in {Rat(1, 2), R(1), Rat(14, 10), Rat(5, 2)},
          vt \in {-5, 65}}

DonchianCalls ==
    {[fn |-> "AdaptiveDonchianV1",
      args |-> [donchian_length |-> dl, atr_length |-> al, atr_multiplier |-> mu,
                adx_length |-> 14, adx_threshold |-> th]]
        : dl \in {4, 5, 20}, al \in {4, 5, 14}, mu \in {R(-1), Zero, Rat(1, 2)},
          th \in {R(-1), Zero, R(20)}}

(* strategy_class(params): the constructor call of a strategy class *)
Construct ==
    /\ call # None
    /\ call.fn \in {"AdaptiveEmaV1Strategy", "AdaptiveEMAV2", "AdaptiveDonchianV1"}
    /\ ret = None
    /\ ret' = CASE call.fn = "AdaptiveEmaV1Strategy" -> V1Init(call.args, call.asserts)
                [] call.fn = "AdaptiveEMAV2" -> V2Init(call.args)
                [] call.fn = "AdaptiveDonchianV1" -> DonchianInit(call.args)
    /\ UNCHANGED <<runVars, sweepVars, laterVars, call>>
(* optimize_numba.py: generate_range, generate_range_float, get_param_range *)

(* list(range(a, b + 1)) *)
Range(a, b) == [i \in 1..(IF b >= a THEN b - a + 1 ELSE 0) |-> a + i - 1]

MaxInt(a, b) == IF a >= b THEN a ELSE b
MinInt(a, b) == IF a <= b THEN a ELSE b

(* max_val: np.inf or a finite number *)
Inf == [inf |-> TRUE, value |-> 0]
Finite(v) == [inf |-> FALSE, value |-> v]

(* generate_range: value and percent are such that value * (1 - percent) >= 0 *)
GenerateRange(value, percent, min_val) ==
    Range(MaxInt(min_val, IntOf(RMul(R(value), RSub(R(1), percent)))),
          IntOf(RMul(R(value), RAdd(R(1), percent))))

(* generate_range_float *)
GenerateRangeFloat(value, percent, min_val, max_val) ==
    Range(MaxInt(min_val, IntOf(RMul(R(value), RSub(R(1), percent)))),
          MinInt(max_val.value, IntOf(RMul(R(value), RAdd(R(1), percent)))))

(* get_param_range: custom_value is None, a number, a list, or a value of   *)
(* another type (a string, a bool)                                          *)
GetParamRange(custom_value, default_value, default_percent, min_val, max_val) ==
    IF custom_value = None
    THEN IF max_val = Inf THEN GenerateRange(default_value, default_percent, min_val)
         ELSE GenerateRangeFloat(default_value, default_percent, min_val, max_val)
    ELSE IF custom_value.type = "number"
    THEN IF max_val = Inf THEN GenerateRange(default_value, custom_value.value, min_val)
         ELSE GenerateRangeFloat(default_value, custom_value.value, min_val, max_val)
    ELSE IF custom_value.type = "list" /\ Len(custom_value.items) = 2
    THEN Range(custom_value.items[1], custom_value.items[2])
    ELSE GenerateRange(default_value, default_percent, min_val)

(* Longest list and largest entry of a range specification *)
MaxListLen == 3
MaxEntry == 3

CustomValues ==
    {None, [type |-> "number", value |-> Rat(1, 4)], [type |-> "str"], [type |-> "bool"]}
    \cup {[type |-> "list", items |-> it]
              : it \in UNION {[1..n -> 1..MaxEntry] : n \in 0..MaxListLen}}

ParamRangeCalls ==
    {[fn |-> "get_param_range",
      args |-> [custom_value |-> cv, default_value |-> dv, default_percent |-> Rat(1, 2),
                min_val |-> 1, max_val |-> mv]]
        : cv \in CustomValues, dv \in {10, 50}, mv \in {Inf, Finite(60)}}

(* get_param_range(custom_value, default_value, default_percent, min_val, max_val) *)
CallGetParamRange ==
    /\ call # None
    /\ call.fn = "get_param_range"
    /\ ret = None
    /\ ret' = [ok |-> TRUE,
               value |-> GetParamRange(call.args.custom_value, call.args.default_value,
                                       call.args.default_percent, call.args.min_val,
                                       call.args.max_val)]
    /\ UNCHANGED <<runVars, sweepVars, laterVars, call>>

(* The regime selectors beside get_volatility_regime and                    *)
(* AdaptiveEmaV1Strategy.calculate_indicators                               *)

(* indicators_numba.py get_volatility_regime_numba: 0 LOW, 1 MEDIUM, 2 HIGH *)
GetVolatilityRegimeNumba(vol_rank, low_percentile, high_percentile) ==
    IF IsNaN(vol_rank) THEN -1
    ELSE IF RLt(vol_rank, R(low_percentile)) THEN 0
    ELSE IF RLt(vol_rank, R(high_percentile)) THEN 1
    ELSE 2

(* The vectorised selection with the high cut point itself in MEDIUM *)
OptimizedRegimeHighAbove(vol_rank, low_percentile, high_percentile) ==
    IF RLt(vol_rank, R(low_percentile)) THEN 0
    ELSE IF RLe(vol_rank, R(high_percentile)) THEN 1
    ELSE 2

(* optimize.py run_strategy_optimized, lines 108-109: one element of        *)
(* np.where(vol_ranks < low, 0, np.where(vol_ranks < high, 1, 2))           *)
OptimizedRegime(vol_rank, low_percentile, high_percentile) ==
    IF RLt(vol_rank, R(low_percentile)) THEN 0
    ELSE IF RLt(vol_rank, R(high_percentile)) THEN 1
    ELSE 2

(* Percentile grid: the cut points are multiples of 100 / PctSteps, the     *)
(* percentiles multiples of half of that                                    *)
PctSteps == 4

CutPoints == {(100 * k) \div PctSteps : k \in 0..PctSteps}

Percentiles == {Rat(100 * k, 2 * PctSteps) : k \in 0..(2 * PctSteps)}

Selectors ==
    {"get_volatility_regime", "get_volatility_regime_numba", "run_strategy_optimized",
     "calculate_indicators"}

(* The percentile is a number at every call site: run_strategy and          *)
(* backtest_numba skip a bar whose rank is NaN before they select, the      *)
(* ranks of run_strategy_optimized start from np.zeros over a fillna(0)     *)
(* series, and calculate_volatility_percentile of AdaptiveEmaV1Strategy     *)
(* gives 50.0 or a ratio of counts.                                         *)
RegimeCalls ==
    {[fn |-> "regime", args |-> [vol_rank |-> p, low_percentile |-> c[1],
                                 high_percentile |-> c[2]]]
        : p \in Percentiles,
          c \in {x \in CutPoints \X CutPoints : x[1] < x[2]}}

(* Every selector applied to the same percentile and cut points *)
SelectRegime ==
    /\ call # None
    /\ call.fn = "regime"
    /\ ret = None
    /\ LET a == call.args
       IN  ret' = [s \in Selectors |->
                      CASE s = "get_volatility_regime" ->
                               GetVolatilityRegime(a.vol_rank, a.low_percentile,
                                                   a.high_percentile)
                        [] s = "get_volatility_regime_numba" ->
                               GetVolatilityRegimeNumba(a.vol_rank, a.low_percentile,
                                                        a.high_percentile)
                        [] s = "run_strategy_optimized" ->
                               OptimizedRegime(a.vol_rank, a.low_percentile,
                                               a.high_percentile)
                        [] s = "calculate_indicators" ->
                               V1SelectRegime(a.vol_rank, a.low_percentile,
                                              a.high_percentile)]
    /\ UNCHANGED <<runVars, sweepVars, laterVars, call>>

(* generate_signals of the strategy classes and the signal branch of        *)
(* run_strategy, on indicator values that may be NaN                        *)

(* Lines 166-201 of backtest.py: what the iteration does with an EMA pair *)
RsSignal(e) ==
    IF IsNaN(e.fast_ema) \/ IsNaN(e.slow_ema) THEN "SKIP"
    ELSE IF BullishCross(e) THEN "BUY"
    ELSE IF BearishCross(e) THEN "SELL"
    ELSE "NONE"

(* AdaptiveEMAVolV1.generate_signals after the warmup, lines 255-265, with   *)
(* the default thresholds of the constructor (adx_threshold 8.0,            *)
(* rsi_trending_min 35, rsi_trending_max 75); c holds the crossover memory, *)
(* the two EMAs and the filters read at idx                                 *)
VolV1GenerateSignals(c) ==
    IF RLe(c.prev_ema_fast, c.prev_ema_slow) /\ RGt(c.ema_fast, c.ema_slow)
    THEN IF /\ RGe(c.adx, R(8))
            /\ RLe(R(35), c.rsi) /\ RLe(c.rsi, R(75))
            /\ RGt(c.volume, c.volume_ma)
         THEN "BUY" ELSE "NONE"
    ELSE IF RGe(c.prev_ema_fast, c.prev_ema_slow) /\ RLt(c.ema_fast, c.ema_slow)
    THEN "SELL"
    ELSE "NONE"

(* Indicator values: undefined, or a number *)
IndicatorValues == {NaN, R(1), R(2)}

(* Two rows of the frame of AdaptiveEmaV1Strategy *)
V1SignalFrames ==
    {<<[ema_fast |-> pf, ema_slow |-> ps], [ema_fast |-> cf, ema_slow |-> cs]>>
        : pf \in IndicatorValues, ps \in IndicatorValues,
          cf \in IndicatorValues, cs \in IndicatorValues}

(* The frame of AdaptiveDonchianV1 up to the first bar after the warmup:    *)
(* the previous bar's channel and the current bar's ADX are free            *)
DonchianSignalFrames(s) ==
    {[k \in 1..(DonchianWarmup(s) + 1) |->
         [high |-> R(2), low |-> R(2),
          donchian_low |-> IF k = DonchianWarmup(s) THEN dl ELSE R(2),
          breakout_threshold |-> IF k = DonchianWarmup(s) THEN bt ELSE R(2),
          adx |-> IF k = DonchianWarmup(s) + 1 THEN adx ELSE R(30)]]
        : dl \in {NaN, R(1), R(3)}, bt \in {NaN, R(1), R(3)}, adx \in {NaN, R(10), R(30)}}

SignalCalls ==
    {[fn |-> "generate_signals", class |-> "AdaptiveEmaV1Strategy", frame |-> f]
        : f \in V1SignalFrames}
    \cup {[fn |-> "generate_signals", class |-> "AdaptiveDonchianV1", frame |-> f,
           held |-> h]
              : f \in DonchianSignalFrames(DonchianStrategy(5, 5, Rat(1, 2), 5, R(20))),
                h \in {Zero, R(1)}}
    \cup {[fn |-> "generate_signals", class |-> "run_strategy",
           e |-> [fast_ema |-> cf, slow_ema |-> cs, prev_fast |-> pf, prev_slow |-> ps]]
              : pf \in IndicatorValues, ps \in IndicatorValues,
                cf \in IndicatorValues, cs \in IndicatorValues}
    \cup {[fn |-> "generate_signals", class |-> "AdaptiveEMAVolV1",
           bar |-> [prev_ema_fast |-> pf, prev_ema_slow |-> ps, ema_fast |-> cf,
                    ema_slow |-> cs, adx |-> adx, rsi |-> rsi, volume |-> R(2),
                    volume_ma |-> vma]]
              : pf \in IndicatorValues, ps \in IndicatorValues,
                cf \in IndicatorValues, cs \in IndicatorValues,
                adx \in {NaN, R(30)}, rsi \in {NaN, R(50)}, vma \in {NaN, R(1)}}

(* generate_signals(data, idx) at the last row of the frame, or one pass of *)
(* run_strategy's loop body                                                 *)
CallGenerateSignals ==
    /\ call # None
    /\ call.fn = "generate_signals"
    /\ ret = None
    /\ ret' = [signal |->
                  CASE call.class = "AdaptiveEmaV1Strategy" ->
                           V1GenerateSignals(call.frame, Len(call.frame) - 1)
                    [] call.class = "AdaptiveDonchianV1" ->
                           DonchianGenerateSignals(DonchianStrategy(5, 5, Rat(1, 2), 5, R(20)),
                                                   call.frame, Len(call.frame) - 1, call.held)
                    [] call.class = "AdaptiveEMAVolV1" -> VolV1GenerateSignals(call.bar)
                    [] call.class = "run_strategy" -> RsSignal(call.e)]
    /\ UNCHANGED <<runVars, sweepVars, laterVars, call>>

InitCall ==
    /\ RunIdle
    /\ optimizer = None
    /\ total_combinations = 0
    /\ evaluated = <<>>
    /\ tested_count = 0
    /\ valid_count = 0
    /\ skipped_count = 0
    /\ best_result = None
    /\ results = <<>>
    /\ sweep_pc = "idle"
    /\ call \in V1Calls \cup V2Calls \cup DonchianCalls \cup ParamRangeCalls \cup RegimeCalls
                \cup SignalCalls
    /\ ret = None
    /\ LaterIdle

NextCall == Construct \/ CallGetParamRange \/ SelectRegime \/ CallGenerateSignals

SpecCall == InitCall /\ [][NextCall]_vars

-----------------------------------------------------------------------------
(* Properties of the constructors and of the functions *)

(* C16: a strategy whose parameters violate fast < slow in a regime,        *)
(* low_pct < high_pct, a multiplier >= 1.0 or a threshold >= 0 is never     *)
(* constructed: the constructor raises.                                     *)
C16_InvalidParametersRejected ==
    (ret # None /\ call.fn \in {"AdaptiveEmaV1Strategy", "AdaptiveEMAV2", "AdaptiveDonchianV1"}
       /\ ret.ok) =>
        LET a == call.args
        IN  CASE call.fn = "AdaptiveEmaV1Strategy" ->
                     /\ a.fast_low < a.slow_low
                     /\ a.fast_med < a.slow_med
                     /\ a.fast_high < a.slow_high
                     /\ a.low_pct < a.high_pct
              [] call.fn = "AdaptiveEMAV2" ->
                     /\ a.fast_base < a.slow_base
                     /\ RGe(a.fast_mult, R(1))
                     /\ RGe(a.slow_mult, R(1))
                     /\ a.vol_threshold >= 0
              [] call.fn = "AdaptiveDonchianV1" ->
                     /\ RGe(a.adx_threshold, Zero)

(* C17: for every constructed AdaptiveEMAV2 the fast period used is below   *)
(* the slow period used in both regimes: fast_base < slow_base and          *)
(* int(fast_base * fast_mult) < int(slow_base * slow_mult).                 *)
C17_FastBelowSlow ==
    (ret # None /\ call.fn = "AdaptiveEMAV2" /\ ret.ok) =>
        \A is_high_vol \in BOOLEAN :
            V2FastPeriod(ret.params, is_high_vol) < V2SlowPeriod(ret.params, is_high_vol)

(* A range specification get_param_range has to reject *)
Malformed(cv) ==
    /\ cv # None
    /\ \/ cv.type \in {"str", "bool"}
       \/ cv.type = "list" /\ Len(cv.items) # 2
       \/ cv.type = "list" /\ Len(cv.items) = 2 /\ cv.items[1] > cv.items[2]

(* C19: get_param_range answers a malformed range specification with an     *)
(* error, never with the default range and never with an empty range.       *)
C19_MalformedRangeRejected ==
    (ret # None /\ call.fn = "get_param_range" /\ Malformed(call.args.custom_value)) =>
        ~ret.ok

(* LOW iff p < low, HIGH iff p >= high, MEDIUM otherwise *)
ExpectedRegime(p, low, high) ==
    IF RLt(p, R(low)) THEN "LOW" ELSE IF RGe(p, R(high)) THEN "HIGH" ELSE "MEDIUM"

(* The regime an integer code stands for *)
RegimeOfCode(x) ==
    CASE x = 0 -> "LOW" [] x = 1 -> "MEDIUM" [] x = 2 -> "HIGH" [] OTHER -> "NONE"

(* The regime a lower-case name stands for *)
RegimeOfName(x) ==
    CASE x = "low" -> "LOW" [] x = "medium" -> "MEDIUM" [] x = "high" -> "HIGH"
      [] OTHER -> "NONE"

-----------------------------------------------------------------------------
(* The caller's bar series *)

(* C18: run(data) leaves the caller's bar series unchanged: when run() has  *)
(* returned, the frame the caller passed has the columns and the values it  *)
(* had before the call, whatever the strategy class.                        *)
C18_InputUnchanged ==
    (pc = "done" /\ strategy # None) => data = Bars(data)

-----------------------------------------------------------------------------
(* The volatility percentile rank *)

(* 100 * (number of values <= xs[k] among the vol_length values ending at   *)
(* and including row k) / vol_length                                        *)
PercentileRank(xs, k, vol_length) ==
    Rat(100 * CountLe(xs, k - vol_length + 1, k, xs[k]), vol_length)

(* The series the percentile of a strategy class is taken of *)
VolatilitySeries(s, frame) ==
    IF s.class = "AdaptiveEmaV1Strategy" THEN Column(frame, "normalized_atr")
    ELSE Column(frame, "relative_volatility")

(* C21: at every bar with a full window the volatility percentile equals    *)
(* 100 * (number of values <= the bar's value among the vol_length values   *)
(* ending at and including the bar) / vol_length.                           *)
C21_PercentileRank ==
    (indicators # None /\ strategy # None
       /\ strategy.class \in {"AdaptiveEmaV1Strategy", "AdaptiveEMAV2"}) =>
        \A k \in strategy.vol_length..Len(indicators) :
            indicators[k].vol_percentile
                = PercentileRank(VolatilitySeries(strategy, indicators), k, strategy.vol_length)

-----------------------------------------------------------------------------
(* The final bar *)

(* The EMA pair run_strategy would read at the final bar *)
RsFinalBar ==
    LET i == Len(data) - 1
    IN  RsSelect(indicators,
                 GetVolatilityRegime(indicators.vol_ranks[i + 1],
                                     strategy.params.low_vol_percentile,
                                     strategy.params.high_vol_percentile),
                 i)

(* C22: the loop queries the signal at every bar up to and including the    *)
(* final one: a bullish crossover on the final bar while no position is     *)
(* open is acted on, so the trade list holds an entry dated at that bar.    *)
C22_FinalBarActedOn ==
    (pc = "rs_done" /\ Len(data) - 1 >= indicators.start_idx
       /\ position = None /\ BullishCross(RsFinalBar)) =>
        \E k \in 1..Len(trades) : trades[k].entry_date = ILast(data).timestamp

-----------------------------------------------------------------------------
(* python/optimize.py: the indicator caches and run_strategy_optimized,     *)
(* beside run_strategy of python/backtest.py as one function                *)

(* Series.fillna(0) *)
FillNa0(xs) == [i \in 1..Len(xs) |-> IF IsNaN(xs[i]) THEN Zero ELSE xs[i]]

(* calculate_volatility_metrics_cached *)
CalculateVolatilityMetricsCached(df, atr_length, volatility_length) ==
    LET natr == FillNa0(NormalizedAtr(df, atr_length))
    IN  [i \in 1..Len(natr) |->
            LET start == IF i - volatility_length + 1 > 1 THEN i - volatility_length + 1
                         ELSE 1
                n == i - start + 1
            IN  IF n < MinWindow THEN Zero
                ELSE Rat(CountLe(natr, start, i, natr[i]) * 100, n)]

(* precalculate_emas *)
PrecalculateEmas(df, ema_lengths) ==
    [length \in ema_lengths |-> Ema(Column(df, "close"), length)]

(* The cache key without the volatility length *)
VolCacheKeyAtrOnly(params) == <<params.atr_length, 0>>

(* cache_key = f"{params['atr_length']}-{params['volatility_length']}" *)
VolCacheKey(params) == <<params.atr_length, params.volatility_length>>

(* Lines 78-83: the volatility cache after the lookup of a combination *)
VolCacheFilled(cache, df, params) ==
    IF VolCacheKey(params) \in DOMAIN cache THEN cache
    ELSE [k \in DOMAIN cache \cup {VolCacheKey(params)} |->
             IF k = VolCacheKey(params)
             THEN CalculateVolatilityMetricsCached(df, params.atr_length,
                                                   params.volatility_length)
             ELSE cache[k]]

(* Lines 86-109: the arrays the loop of run_strategy_optimized reads *)
OptimizedArrays(df, emas, vols, params) ==
    [vol_ranks |-> vols[VolCacheKey(params)],
     ema_low_fast |-> emas[params.fast_length_low],
     ema_low_slow |-> emas[params.slow_length_low],
     ema_med_fast |-> emas[params.fast_length_med],
     ema_med_slow |-> emas[params.slow_length_med],
     ema_high_fast |-> emas[params.fast_length_high],
     ema_high_slow |-> emas[params.slow_length_high],
     start_idx |-> Max3(params.slow_length_low, params.slow_length_med,
                        params.slow_length_high)]

(* Lines 116-128: the EMA pair of regime code 0, 1 or 2 at index i and i - 1 *)
OptimizedSelect(ind, code, i) ==
    IF code = 0
    THEN [fast_ema |-> ind.ema_low_fast[i + 1], slow_ema |-> ind.ema_low_slow[i + 1],
          prev_fast |-> ind.ema_low_fast[i], prev_slow |-> ind.ema_low_slow[i],
          regime |-> "LOW"]
    ELSE IF code = 1
    THEN [fast_ema |-> ind.ema_med_fast[i + 1], slow_ema |-> ind.ema_med_slow[i + 1],
          prev_fast |-> ind.ema_med_fast[i], prev_slow |-> ind.ema_med_slow[i],
          regime |-> "MEDIUM"]
    ELSE [fast_ema |-> ind.ema_high_fast[i + 1], slow_ema |-> ind.ema_high_slow[i + 1],
          prev_fast |-> ind.ema_high_fast[i], prev_slow |-> ind.ema_high_slow[i],
          regime |-> "HIGH"]

(* The locals of either loop before its first iteration *)
LoopStart(cap) ==
    [trades |-> <<>>, position |-> None, equity |-> cap, equity_curve |-> <<>>,
     peak_equity |-> cap, max_drawdown |-> Zero, early_return |-> Zero]

(* Lines 112-180 of optimize.py: one iteration of the loop at index i, from *)
(* the locals st the iteration before left                                 *)
OptimizedIteration(df, ind, params, cap, i, st) ==
    LET e == OptimizedSelect(ind,
                             OptimizedRegime(ind.vol_ranks[i + 1],
                                             params.low_vol_percentile,
                                             params.high_vol_percentile),
                             i)
        current_price == df[i + 1].close
        entered == IF BullishCross(e) /\ st.position = None
                   THEN [entry_price |-> current_price, entry_idx |-> i,
                         shares |-> RDiv(st.equity, current_price),
                         regime |-> e.regime]
                   ELSE st.position
        exits == BearishCross(e) /\ entered # None
        pnl == IF exits
               THEN RMul(RSub(current_price, entered.entry_price), entered.shares)
               ELSE Zero
        equity1 == RAdd(st.equity, pnl)
        position1 == IF exits THEN None ELSE entered
        current_equity ==
            IF position1 # None
            THEN RAdd(equity1, RMul(RSub(current_price, position1.entry_price),
                                    position1.shares))
            ELSE equity1
        peak1 == IF RGt(current_equity, st.peak_equity) THEN current_equity
                 ELSE st.peak_equity
        drawdown == RMul(RDiv(RSub(peak1, current_equity), peak1), Hundred)
    IN  IF IsNaN(ind.vol_ranks[i + 1]) \/ IsNaN(e.fast_ema) \/ IsNaN(e.slow_ema)
        THEN st
        ELSE [trades |-> IF exits
                         THEN Append(st.trades,
                                [entry_idx |-> entered.entry_idx, exit_idx |-> i,
                                 entry_price |-> entered.entry_price,
                                 exit_price |-> current_price, pnl |-> pnl,
                                 regime |-> entered.regime])
                         ELSE st.trades,
              position |-> position1,
              equity |-> equity1,
              equity_curve |-> Append(st.equity_curve, current_equity),
              peak_equity |-> peak1,
              max_drawdown |-> IF RGt(drawdown, st.max_drawdown) THEN drawdown
                               ELSE st.max_drawdown,
              early_return |->
                  IF i = Len(df) \div 2
                  THEN RMul(RDiv(RSub(current_equity, cap), cap), Hundred)
                  ELSE st.early_return]

(* Lines 111-180 of optimize.py: the locals after the iterations up to and  *)
(* including index i of `for i in range(start_idx, len(df) - 1)`            *)
RECURSIVE OptimizedLoop(_, _, _, _, _)
OptimizedLoop(df, ind, params, cap, i) ==
    IF i < ind.start_idx THEN LoopStart(cap)
    ELSE CHOOSE after \in {OptimizedIteration(df, ind, params, cap, i, st) :
                              st \in {OptimizedLoop(df, ind, params, cap, i - 1)}} : TRUE

(* Lines 182-225 of optimize.py: the forced close and the result, from the  *)
(* locals st the loop left                                                  *)
OptimizedFinish(df, cap, st) ==
    LET open == st.position # None
        final_price == ILast(df).close
        pnl == IF open
               THEN RMul(RSub(final_price, st.position.entry_price), st.position.shares)
               ELSE Zero
        final_equity == RAdd(st.equity, pnl)
        all_trades == IF open
                      THEN Append(st.trades,
                             [entry_idx |-> st.position.entry_idx,
                              exit_idx |-> Len(df) - 1,
                              entry_price |-> st.position.entry_price,
                              exit_price |-> final_price, pnl |-> pnl,
                              regime |-> st.position.regime])
                      ELSE st.trades
    IN  [trades |-> all_trades,
         total_trades |-> Len(all_trades),
         total_return |-> RMul(RDiv(RSub(final_equity, cap), cap), Hundred),
         final_equity |-> final_equity,
         max_drawdown |-> st.max_drawdown,
         equity_curve |-> st.equity_curve,
         early_return |-> st.early_return]

(* run_strategy_optimized(df, ema_cache, vol_cache, params), the caches as  *)
(* they are after the lookup of lines 78-83                                 *)
RunStrategyOptimized(df, emas, vols, params, cap) ==
    CHOOSE res \in {OptimizedFinish(df, cap, st) :
                      st \in {OptimizedLoop(df, OptimizedArrays(df, emas, vols, params),
                                            params, cap, Len(df) - 2)}} : TRUE

(* Lines 141-223 of backtest.py: the locals of run_strategy after the       *)
(* iterations up to and including index i                                   *)
RECURSIVE RsLoop(_, _, _, _, _)
RsLoop(df, ind, params, cap, i) ==
    IF i < ind.start_idx THEN LoopStart(cap)
    ELSE LET st == RsLoop(df, ind, params, cap, i - 1)
             regime == GetVolatilityRegime(ind.vol_ranks[i + 1], params.low_vol_percentile,
                                           params.high_vol_percentile)
             e == RsSelect(ind, regime, i)
             current_price == df[i + 1].close
             entered == IF BullishCross(e) /\ st.position = None
                        THEN [entry_price |-> current_price,
                              entry_date |-> df[i + 1].timestamp,
                              shares |-> RDiv(st.equity, current_price),
                              regime |-> regime]
                        ELSE st.position
             exits == BearishCross(e) /\ entered # None
             pnl == IF exits
                    THEN RMul(RSub(current_price, entered.entry_price), entered.shares)
                    ELSE Zero
             equity1 == RAdd(st.equity, pnl)
             position1 == IF exits THEN None ELSE entered
             current_equity ==
                 IF position1 # None
                 THEN RAdd(equity1, RMul(RSub(current_price, position1.entry_price),
                                         position1.shares))
                 ELSE equity1
             peak1 == IF RGt(current_equity, st.peak_equity) THEN current_equity
                      ELSE st.peak_equity
             drawdown == RMul(RDiv(RSub(peak1, current_equity), peak1), Hundred)
         IN  IF IsNaN(ind.vol_ranks[i + 1]) \/ IsNaN(e.fast_ema) \/ IsNaN(e.slow_ema)
             THEN st
             ELSE [trades |-> IF exits
                              THEN Append(st.trades,
                                     [entry_date |-> entered.entry_date,
                                      exit_date |-> df[i + 1].timestamp,
                                      entry_price |-> entered.entry_price,
                                      exit_price |-> current_price,
                                      shares |-> entered.shares, pnl |-> pnl,
                                      pnl_percent |->
                                          RMul(RDiv(RSub(current_price, entered.entry_price),
                                                    entered.entry_price), Hundred),
                                      regime |-> entered.regime])
                              ELSE st.trades,
                   position |-> position1,
                   equity |-> equity1,
                   equity_curve |-> Append(st.equity_curve, current_equity),
                   peak_equity |-> peak1,
                   max_drawdown |-> IF RGt(drawdown, st.max_drawdown) THEN drawdown
                                    ELSE st.max_drawdown,
                   early_return |->
                       IF i = Len(df) \div 2
                       THEN RMul(RDiv(RSub(current_equity, cap), cap), Hundred)
                       ELSE st.early_return]

(* run_strategy(df, params) *)
RunStrategy(df, params, cap) ==
    LET ind == RsIndicators(df, params)
        st == RsLoop(df, ind, params, cap, Len(df) - 2)
        open == st.position # None
        final_price == ILast(df).close
        pnl == IF open
               THEN RMul(RSub(final_price, st.position.entry_price), st.position.shares)
               ELSE Zero
        final_equity == RAdd(st.equity, pnl)
        all_trades == IF open
                      THEN Append(st.trades,
                             [entry_date |-> st.position.entry_date,
                              exit_date |-> ILast(df).timestamp,
                              entry_price |-> st.position.entry_price,
                              exit_price |-> final_price,
                              shares |-> st.position.shares, pnl |-> pnl,
                              pnl_percent |->
                                  RMul(RDiv(RSub(final_price, st.position.entry_price),
                                            st.position.entry_price), Hundred),
                              regime |-> st.position.regime])
                      ELSE st.trades
    IN  [trades |-> all_trades,
         total_trades |-> Len(all_trades),
         total_return |-> RMul(RDiv(RSub(final_equity, cap), cap), Hundred),
         final_equity |-> final_equity,
         max_drawdown |-> st.max_drawdown,
         equity_curve |-> st.equity_curve,
         early_return |-> st.early_return]


(* Free bars after the flat ones, largest price, evaluations of one sweep *)
CacheTail == 4
CachePrice == 2
CacheEvals == 2

(* Series long enough for the rank windows (MinWindow bars) to be full:     *)
(* flat bars at price 1, then the free ones                                 *)
CacheSeries ==
    {FlatBars([k \in 1..(MinWindow + CacheTail) |->
                  IF k <= MinWindow THEN 1 ELSE tail[k - MinWindow]])
         : tail \in [1..CacheTail -> 1..CachePrice]}

CacheParams(fh, sh, vl) ==
    [fast_length_low |-> 1, slow_length_low |-> 3,
     fast_length_med |-> 1, slow_length_med |-> 3,
     fast_length_high |-> fh, slow_length_high |-> sh,
     volatility_length |-> vl, atr_length |-> 1,
     low_vol_percentile |-> 28, high_vol_percentile |-> 91]

(* The combinations of the sweep: two pairs for the high regime, two        *)
(* volatility lengths                                                       *)
CacheCombos == {CacheParams(1, 3, 20), CacheParams(3, 7, 20), CacheParams(3, 7, 40)}

(* Lines 293-300: every EMA length of the ranges *)
AllEmaLengths ==
    UNION {{ps.fast_length_low, ps.slow_length_low, ps.fast_length_med, ps.slow_length_med,
            ps.fast_length_high, ps.slow_length_high} : ps \in CacheCombos}

(* optimize_ticker, line 375: run_strategy_optimized on the next            *)
(* combination, with the caches of the sweep                                *)
RunStrategyOptimizedCall ==
    /\ sweep_pc = "cached_sweep"
    /\ Len(evaluated) < CacheEvals
    /\ \E params \in CacheCombos :
          /\ vol_cache' = VolCacheFilled(vol_cache, data, params)
          /\ evaluated' = Append(evaluated,
                                 [params |-> params,
                                  result |-> RunStrategyOptimized(data, ema_cache, vol_cache',
                                                                  params, initial_capital)])
    /\ UNCHANGED <<runVars, callVars, walkVars, numbaVars, ema_cache, optimizer,
                   total_combinations, tested_count, valid_count, skipped_count,
                   best_result, results, sweep_pc>>

(* optimize_ticker, lines 300-310: the caches before the loop *)
InitCache ==
    /\ data \in CacheSeries
    /\ strategy = None
    /\ initial_capital = R(DefaultCapital)
    /\ capital = initial_capital
    /\ position = Zero
    /\ entry_price = Zero
    /\ trades = <<>>
    /\ equity_curve = <<>>
    /\ idx = 0
    /\ signal = "NONE"
    /\ pc = "idle"
    /\ metrics = NoMetrics
    /\ indicators = None
    /\ prev_ema_fast = None
    /\ prev_ema_slow = None
    /\ calls_left = 0
    /\ returned = <<>>
    /\ LegacyIdle
    /\ optimizer = "optimize"
    /\ total_combinations = Cardinality(CacheCombos)
    /\ evaluated = <<>>
    /\ tested_count = 0
    /\ valid_count = 0
    /\ skipped_count = 0
    /\ best_result = None
    /\ results = <<>>
    /\ sweep_pc = "cached_sweep"
    /\ call = None
    /\ ret = None
    /\ ema_cache = PrecalculateEmas(data, AllEmaLengths)
    /\ vol_cache = <<>>
    /\ train_period_days = 0
    /\ test_period_days = 0
    /\ current_idx = 0
    /\ trade_count = 0

NextCache == RunStrategyOptimizedCall

SpecCache == InitCache /\ [][NextCache]_vars

-----------------------------------------------------------------------------
(* Properties of the caches *)

(* C23: the caches are read-only once built: evaluating a combination       *)
(* inserts nothing into ema_cache or vol_cache and changes no entry.        *)
C23_CachesReadOnly == [][ema_cache' = ema_cache /\ vol_cache' = vol_cache]_vars

(* The trades, final equity and max drawdown of two results are the same;   *)
(* a is from run_strategy_optimized (bar indexes), b from run_strategy      *)
(* (timestamps)                                                             *)
SameOutcome(df, a, b) ==
    /\ a.final_equity = b.final_equity
    /\ a.max_drawdown = b.max_drawdown
    /\ Len(a.trades) = Len(b.trades)
    /\ \A k \in 1..Len(a.trades) :
          /\ ILoc(df, a.trades[k].entry_idx).timestamp = b.trades[k].entry_date
          /\ ILoc(df, a.trades[k].exit_idx).timestamp = b.trades[k].exit_date
          /\ a.trades[k].entry_price = b.trades[k].entry_price
          /\ a.trades[k].exit_price = b.trades[k].exit_price
          /\ a.trades[k].pnl = b.trades[k].pnl

(* C28: caching is transparent: every evaluation of run_strategy_optimized  *)
(* with the caches of the sweep gives the trades, final equity and max      *)
(* drawdown of run_strategy on the same combination, whatever was           *)
(* evaluated before it.                                                     *)
C28_CachingTransparent ==
    \A k \in 1..Len(evaluated) :
        SameOutcome(data, evaluated[k].result,
                    RunStrategy(data, evaluated[k].params, initial_capital))

C28_Witness ==
    /\ Len(evaluated) = 2
    /\ VolCacheKey(evaluated[1].params) # VolCacheKey(evaluated[2].params)
    /\ evaluated[2].result.trades # <<>>
    /\ evaluated[1].result.final_equity # evaluated[2].result.final_equity
    /\ evaluated[1].params.slow_length_high = evaluated[2].params.slow_length_high
    /\ evaluated[1].params.fast_length_high = evaluated[2].params.fast_length_high

-----------------------------------------------------------------------------
(* Undefined indicator values *)

(* An indicator value the decision of the call needs is NaN *)
NeededIsNaN(c) ==
    CASE c.class = "AdaptiveEmaV1Strategy" ->
             \E k \in 1..2 : IsNaN(c.frame[k].ema_fast) \/ IsNaN(c.frame[k].ema_slow)
      [] c.class = "AdaptiveDonchianV1" ->
             IF c.held = Zero
             THEN \/ IsNaN(c.frame[Len(c.frame) - 1].breakout_threshold)
                  \/ IsNaN(c.frame[Len(c.frame)].adx)
             ELSE IsNaN(c.frame[Len(c.frame) - 1].donchian_low)
      [] c.class = "AdaptiveEMAVolV1" ->
             \/ IsNaN(c.bar.prev_ema_fast) \/ IsNaN(c.bar.prev_ema_slow)
             \/ IsNaN(c.bar.ema_fast) \/ IsNaN(c.bar.ema_slow)
             \/ /\ RLe(c.bar.prev_ema_fast, c.bar.prev_ema_slow)
                /\ RGt(c.bar.ema_fast, c.bar.ema_slow)
                /\ IsNaN(c.bar.adx) \/ IsNaN(c.bar.rsi) \/ IsNaN(c.bar.volume_ma)
      [] c.class = "run_strategy" ->
             \/ IsNaN(c.e.fast_ema) \/ IsNaN(c.e.slow_ema)
             \/ IsNaN(c.e.prev_fast) \/ IsNaN(c.e.prev_slow)

(* C24: when an indicator value needed for the decision at a bar is NaN,    *)
(* the signal at the bar is neither BUY nor SELL.                           *)
C24_NaNGivesNoSignal ==
    (ret # None /\ call.fn = "generate_signals" /\ NeededIsNaN(call)) =>
        ret.signal \notin {"BUY", "SELL"}

C24_Witness ==
    /\ ret # None
    /\ call.fn = "generate_signals"
    /\ call.class = "run_strategy"
    /\ IsNaN(call.e.prev_fast)
    /\ RLt(call.e.fast_ema, call.e.slow_ema)
    /\ ret.signal = "NONE"


-----------------------------------------------------------------------------
(* quantconnect/optimize.py walk_forward_optimization, with grid_search     *)
(* (n_jobs=1) and BaseStrategy.run as functions of their arguments          *)

(* Bars of the data, price levels, and the period lengths tried *)
WalkBars == 5
WalkPrice == 3
MaxTrain == 2
MaxTest == 2

WalkSeries ==
    UNION {{FlatBars(cs) : cs \in [1..n -> 1..WalkPrice]} : n \in 0..WalkBars}

(* The combinations of a param_grid over fast_low, the other                *)
(* parameters of AdaptiveEmaV1Strategy fixed                                *)
WalkParamGrid == {V1Strategy(fl, 3, 1, 7, 3, 7) : fl \in {1, 2}}

(* Lines 70-78 of BaseStrategy.run: the ledger and the crossover memory     *)
(* after the iteration at bar t - 1, from those before it                   *)
LedgerStep(s, frame, st, t) ==
    LET g == CHOOSE x \in GenerateSignals(s, frame, t - 1, st.position,
                                          st.prev_ema_fast, st.prev_ema_slow) : TRUE
        after == OnSignal(g.signal, ILoc(frame, t - 1), st.position, st.entry_price,
                          st.capital, st.trades)
    IN  [position |-> after.position, entry_price |-> after.entry_price,
         capital |-> after.capital, trades |-> after.trades,
         prev_ema_fast |-> g.prev_ema_fast, prev_ema_slow |-> g.prev_ema_slow]

(* Lines 53-78: the ledgers of a new object before the loop and after each  *)
(* of its first t iterations                                                *)
RECURSIVE RunLedgers(_, _, _, _)
RunLedgers(s, frame, init, t) ==
    IF t = 0
    THEN <<[position |-> Zero, entry_price |-> Zero, capital |-> init, trades |-> <<>>,
            prev_ema_fast |-> None, prev_ema_slow |-> None]>>
    ELSE CHOOSE ls \in {Append(before, LedgerStep(s, frame, before[t], t)) :
                           before \in {RunLedgers(s, frame, init, t - 1)}} : TRUE

(* Lines 63-67 and 80-85: the initial equity point and one point per bar *)
RunEquityCurve(frame, init, ledgers) ==
    [k \in 1..(Len(frame) + 1) |->
        IF k = 1
        THEN [timestamp |-> ILoc(frame, 0).timestamp, equity |-> init]
        ELSE [timestamp |-> frame[k - 1].timestamp,
              equity |-> CalculateEquity(frame[k - 1], ledgers[k].position,
                                         ledgers[k].capital)]]

(* Lines 87-92: the position left open is sold at the last bar;             *)
(* _calculate_metrics raises KeyError on an empty trade list                *)
RunResult(frame, init, last, eqc) ==
    LET closed == IF RGt(last.position, Zero)
                  THEN ExecuteSell(ILast(frame), last.position, last.entry_price,
                                   last.trades)
                  ELSE [position |-> last.position, entry_price |-> last.entry_price,
                        capital |-> last.capital, trades |-> last.trades]
    IN  [raised |-> closed.trades = <<>>,
         metrics |-> IF closed.trades = <<>> THEN [error |-> "KeyError"]
                     ELSE CalculateMetrics(frame, eqc, closed.capital, init, closed.trades),
         trades |-> closed.trades,
         equity_curve |-> eqc]

(* run(df) of a new object of the strategy class: BaseStrategy.run *)
RunOnce(s, df, init) ==
    CHOOSE res \in
        {RunResult(frame, init, ledgers[Len(ledgers)], eqc) :
            <<frame, ledgers, eqc>> \in
                {<<f, ls, RunEquityCurve(f, init, ls)>> :
                    <<f, ls>> \in {<<f0, RunLedgers(s, f0, init, Len(f0))>> :
                                      f0 \in {CalculateIndicators(s, df)}}}} : TRUE

(* grid_search, lines 73-86: the rows of the combinations whose run did not *)
(* raise (the exception of a combination is caught and printed)             *)
GridRows(df, grid, init) ==
    {[params |-> row.params, metrics |-> row.run.metrics] :
        row \in {r \in {[params |-> ps, run |-> RunOnce(ps, df, init)] : ps \in grid} :
                   ~r.run.raised}}

(* train_results.iloc[0] after sort_values(metric, ascending=False): a row  *)
(* no other row beats; which of several equal rows comes first is the       *)
(* sort's choice                                                            *)
TopRows(rows) ==
    {r \in rows : \A o \in rows : ~RGt(o.metrics.calmar_ratio, r.metrics.calmar_ratio)}

(* Series.mean() of one column of results_df *)
RECURSIVE SumOf(_, _)
SumOf(rows, field) ==
    IF rows = <<>> THEN Zero
    ELSE RAdd(Head(rows)[field], SumOf(Tail(rows), field))

Mean(rows, field) == RDiv(SumOf(rows, field), R(Len(rows)))

(* Lines 144-194: one iteration of the window loop.  test_data holds the    *)
(* training bars and the test bars; test_data.iloc[train_period_days] of    *)
(* line 158 is past the end when test_period_days = 0 (IndexError);         *)
(* sort_values in grid_search raises KeyError when no combination returned  *)
(* metrics; strategy.run(test_data) raises KeyError when it made no trade.  *)
WalkWindow ==
    /\ sweep_pc = "walk_forward"
    /\ current_idx + train_period_days + test_period_days <= Len(data)
    /\ LET train_start == current_idx
           train_end == current_idx + train_period_days
           test_start == train_end
           test_end == test_start + test_period_days
           train_data == SubSeq(data, train_start + 1, train_end)
           test_data == SubSeq(data, train_start + 1, test_end)
       IN  IF test_period_days = 0
           THEN /\ sweep_pc' = "raised"
                /\ metrics' = [error |-> "IndexError"]
                /\ UNCHANGED <<strategy, results, equity_curve, returned, current_idx>>
           ELSE \E train_results \in {GridRows(train_data, WalkParamGrid, initial_capital)} :
                IF train_results = {}
                THEN /\ sweep_pc' = "raised"
                     /\ metrics' = [error |-> "KeyError"]
                     /\ UNCHANGED <<strategy, results, equity_curve, returned, current_idx>>
                ELSE \E top \in TopRows(train_results) :
                  \E test_run \in {RunOnce(top.params, test_data, initial_capital)} :
                  LET best_params == top.params
                      test_equity == SubSeq(test_run.equity_curve, train_period_days + 1,
                                            Len(test_run.equity_curve))
                  IN  /\ strategy' = best_params
                      /\ returned' = Append(returned,
                                            [metrics |-> test_run.metrics,
                                             trades |-> test_run.trades,
                                             equity_curve |-> test_run.equity_curve,
                                             prev_ema_fast |-> None,
                                             prev_ema_slow |-> None])
                      /\ IF test_run.raised
                         THEN /\ sweep_pc' = "raised"
                              /\ metrics' = [error |-> "KeyError"]
                              /\ UNCHANGED <<results, equity_curve, current_idx>>
                         ELSE /\ results' = Append(results,
                                     [window |-> Len(results) + 1,
                                      train_start |-> ILoc(train_data, 0).timestamp,
                                      train_end |-> ILast(train_data).timestamp,
                                      test_start |-> ILoc(test_data, train_period_days).timestamp,
                                      test_end |-> ILast(test_data).timestamp,
                                      best_params |-> best_params,
                                      train_metric |-> top.metrics.calmar_ratio,
                                      test_metric |-> test_run.metrics.calmar_ratio,
                                      test_return |-> test_run.metrics.total_return])
                              /\ equity_curve' = equity_curve \o
                                     [k \in 1..Len(test_equity) |-> test_equity[k].equity]
                              /\ current_idx' = test_start
                              /\ UNCHANGED <<sweep_pc, metrics>>
    /\ UNCHANGED <<data, initial_capital, capital, position, entry_price, trades, idx,
                   signal, pc, indicators, legacyVars, prev_ema_fast, prev_ema_slow,
                   calls_left, optimizer, total_combinations, evaluated, tested_count,
                   valid_count, skipped_count, best_result, callVars, cacheVars,
                   train_period_days, test_period_days, numbaVars>>

(* Lines 196-218: the summary after the loop; results_df['train_metric'] is *)
(* a KeyError when no window was run                                        *)
WalkSummary ==
    /\ sweep_pc = "walk_forward"
    /\ ~(current_idx + train_period_days + test_period_days <= Len(data))
    /\ IF results = <<>>
       THEN /\ sweep_pc' = "raised"
            /\ metrics' = [error |-> "KeyError"]
       ELSE /\ sweep_pc' = "returned"
            /\ metrics' = [avg_train_metric |-> Mean(results, "train_metric"),
                           avg_test_metric |-> Mean(results, "test_metric"),
                           total_return |->
                               RMul(RSub(RDiv(equity_curve[Len(equity_curve)],
                                              R(DefaultCapital)), R(1)), Hundred)]
    /\ UNCHANGED <<data, strategy, initial_capital, capital, position, entry_price, trades,
                   equity_curve, idx, signal, pc, indicators, legacyVars, objectVars,
                   optimizer, total_combinations, evaluated, tested_count, valid_count,
                   skipped_count, best_result, results, callVars, cacheVars, walkVars,
                   numbaVars>>

(* Lines 137-142: the locals before the loop *)
InitWalk ==
    /\ data \in WalkSeries
    /\ train_period_days \in 1..MaxTrain
    /\ test_period_days \in 0..MaxTest
    /\ current_idx = 0
    /\ results = <<>>
    /\ equity_curve = <<>>
    /\ sweep_pc = "walk_forward"
    /\ strategy = None
    /\ initial_capital = R(DefaultCapital)
    /\ capital = initial_capital
    /\ position = Zero
    /\ entry_price = Zero
    /\ trades = <<>>
    /\ idx = 0
    /\ signal = "NONE"
    /\ pc = "idle"
    /\ metrics = NoMetrics
    /\ indicators = None
    /\ prev_ema_fast = None
    /\ prev_ema_slow = None
    /\ calls_left = 0
    /\ returned = <<>>
    /\ LegacyIdle
    /\ optimizer = "walk_forward"
    /\ total_combinations = Cardinality(WalkParamGrid)
    /\ evaluated = <<>>
    /\ tested_count = 0
    /\ valid_count = 0
    /\ skipped_count = 0
    /\ best_result = None
    /\ call = None
    /\ ret = None
    /\ ema_cache = <<>>
    /\ vol_cache = <<>>
    /\ trade_count = 0

NextWalk == WalkWindow \/ WalkSummary

SpecWalk == InitWalk /\ [][NextWalk]_vars

-----------------------------------------------------------------------------
(* Properties of the walk-forward windows *)

(* The bars of window w: training bars, then test bars *)
TrainBars(w) ==
    SubSeq(data, (w - 1) * train_period_days + 1, w * train_period_days)

TestBars(w) ==
    SubSeq(data, w * train_period_days + 1, w * train_period_days + test_period_days)

Timestamps(df) == {df[k].timestamp : k \in 1..Len(df)}

(* The equity points window w appended to the walk-forward equity curve *)
WindowEquity(w) ==
    SubSeq(returned[w].equity_curve, train_period_days + 1, Len(returned[w].equity_curve))

(* C25: in every window the parameters are the best of a grid search over   *)
(* the training bars only, and the recorded test return, test metric and    *)
(* equity points are those of a run over the test bars only: exactly        *)
(* test_period_days points per window, none dated at a training bar.        *)
C25_OutOfSampleOnly ==
    (sweep_pc \in {"walk_forward", "returned"}) =>
        /\ Len(equity_curve) = test_period_days * Len(results)
        /\ \A w \in 1..Len(results) :
            LET test_only == RunOnce(results[w].best_params, TestBars(w), initial_capital)
            IN  /\ \E top \in TopRows(GridRows(TrainBars(w), WalkParamGrid,
                                               initial_capital)) :
                       top.params = results[w].best_params
                /\ ~test_only.raised
                /\ results[w].test_return = test_only.metrics.total_return
                /\ results[w].test_metric = test_only.metrics.calmar_ratio
                /\ \A k \in 1..Len(WindowEquity(w)) :
                       WindowEquity(w)[k].timestamp \in Timestamps(TestBars(w))

(* The number of windows that fit: max(0, floor((total_bars -               *)
(* test_period_days) / train_period_days))                                  *)
ExpectedWindows ==
    IF Len(data) - test_period_days < 0 THEN 0
    ELSE (Len(data) - test_period_days) \div train_period_days

(* C29: the window start advances by train_period_days per window, and when *)
(* the loop is over exactly max(0, floor((total_bars - test_period_days) /  *)
(* train_period_days)) windows have been run.                               *)
C29_WindowCount ==
    (optimizer = "walk_forward") =>
        /\ current_idx = Len(results) * train_period_days
        /\ sweep_pc \in {"returned", "raised"} => Len(results) = ExpectedWindows


-----------------------------------------------------------------------------
(* The shape of the trade list *)

(* C26: in every state of BaseStrategy.run the trade list alternates BUY,   *)
(* SELL, BUY, ... starting with BUY; BUY records outnumber SELL records by  *)
(* one exactly when a position is open and by none otherwise; and the       *)
(* return of each SELL record is its price against the price of the BUY     *)
(* record immediately before it.                                            *)
C26_TradesAlternate ==
    /\ \A k \in 1..Len(trades) :
           trades[k].type = IF k % 2 = 1 THEN "BUY" ELSE "SELL"
    /\ OpenPositions(trades) = IF RGt(position, Zero) THEN 1 ELSE 0
    /\ \A k \in 1..Len(trades) :
           trades[k].type = "SELL" =>
               /\ k > 1
               /\ trades[k].return
                      = RMul(RDiv(RSub(trades[k].price, trades[k - 1].price),
                                  trades[k - 1].price), Hundred)

C26_Witness ==
    /\ pc = "loop"
    /\ Len(trades) = 3
    /\ RGt(position, Zero)
    /\ trades[2].return # Zero
    /\ trades[3].price # trades[1].price


-----------------------------------------------------------------------------
(* One EMA pair per crossover *)

(* The fast and slow EMA of a regime's pair at row k of the frame *)
V1PairAt(s, frame, regime, k) ==
    LET close == Column(frame, "close")
    IN  CASE regime = "low" -> [fast |-> Ema(close, s.fast_low)[k],
                                slow |-> Ema(close, s.slow_low)[k]]
          [] regime = "high" -> [fast |-> Ema(close, s.fast_high)[k],
                                 slow |-> Ema(close, s.slow_high)[k]]
          [] OTHER -> [fast |-> Ema(close, s.fast_med)[k],
                       slow |-> Ema(close, s.slow_med)[k]]

(* C27: a BUY (SELL) of AdaptiveEmaV1Strategy at bar i means that the EMA   *)
(* pair of the regime of bar i crossed upwards (downwards) between bar      *)
(* i - 1 and bar i, as run_strategy tests it; a change of regime alone      *)
(* gives no signal.                                                         *)
C27_SinglePairCrossover ==
    (pc = "loop" /\ idx >= 2 /\ strategy.class = "AdaptiveEmaV1Strategy") =>
        LET regime == indicators[idx].volatility_regime
            prev == V1PairAt(strategy, indicators, regime, idx - 1)
            curr == V1PairAt(strategy, indicators, regime, idx)
        IN  /\ signal = "BUY" => RLe(prev.fast, prev.slow) /\ RGt(curr.fast, curr.slow)
            /\ signal = "SELL" => RGe(prev.fast, prev.slow) /\ RLt(curr.fast, curr.slow)


-----------------------------------------------------------------------------
(* python/backtest_numba.py run_strategy_numba.  The EMA and rank arrays    *)
(* are arguments: what the loop reads from them at a bar is the input of    *)
(* the iteration.                                                           *)

(* Bars and price levels of the closes, and the largest start_idx *)
NbBars == 5
NbPrice == 2
NbMaxStart == 2

(* A loop that also visits the final bar *)
NbLoopEndAll(n) == n

(* The end of `range(start_idx, n - 1)`, line 72 *)
NbLoopEnd(n) == n - 1

(* A slot of the np.empty trade arrays that has not been written *)
Unwritten == [entry |-> -1, exit |-> -1, entry_price |-> Zero, exit_price |-> Zero,
              shares |-> Zero]

(* Lines 105-111 and 144-148: the five arrays written at index k; an index  *)
(* outside 0..max_trades - 1 is outside the arrays                          *)
WriteTrade(arrays, k, rec) ==
    IF k >= 0 /\ k < Len(arrays) THEN [arrays EXCEPT ![k + 1] = rec] ELSE arrays

(* What the loop reads at a bar: the EMA values of the regime's pair at     *)
(* i - 1 and i, and whether vol_ranks[i] is NaN                             *)
NbReads ==
    [rank_nan : BOOLEAN, prev_fast : IndicatorValues, prev_slow : IndicatorValues,
     fast_ema : IndicatorValues, slow_ema : IndicatorValues]

(* Lines 72-137: one iteration of the loop *)
NbIter ==
    /\ pc = "nb_loop"
    /\ idx < NbLoopEnd(Len(data))
    /\ \E e \in NbReads :
        LET i == idx
            skip == \/ e.rank_nan
                    \/ IsNaN(e.fast_ema) \/ IsNaN(e.slow_ema)
                    \/ IsNaN(e.prev_fast) \/ IsNaN(e.prev_slow)
            current_price == data[i + 1].close
            enters == BullishCross(e) /\ position.entry_idx < 0
            exits == ~enters /\ BearishCross(e) /\ position.entry_idx >= 0
            pnl == RMul(RSub(current_price, position.entry_price), position.shares)
            position1 == IF enters
                         THEN [entry_idx |-> i, entry_price |-> current_price,
                               shares |-> RDiv(equity, current_price)]
                         ELSE IF exits THEN [position EXCEPT !.entry_idx = -1]
                         ELSE position
            equity1 == IF exits THEN RAdd(equity, pnl) ELSE equity
            current_equity ==
                IF position1.entry_idx >= 0
                THEN RAdd(equity1, RMul(RSub(current_price, position1.entry_price),
                                        position1.shares))
                ELSE equity1
            peak1 == IF RGt(current_equity, peak_equity) THEN current_equity
                     ELSE peak_equity
            drawdown == RMul(RDiv(RSub(peak1, current_equity), peak1), Hundred)
            mid_point == (Len(data) - strategy.start_idx) \div 2 + strategy.start_idx
        IN  IF skip
            THEN /\ signal' = "SKIP"
                 /\ UNCHANGED <<trades, trade_count, position, equity, peak_equity,
                                max_drawdown, early_return, pc>>
            ELSE /\ signal' = IF BullishCross(e) THEN "BUY"
                              ELSE IF BearishCross(e) THEN "SELL" ELSE "NONE"
                 /\ position' = position1
                 /\ equity' = equity1
                 /\ trades' = IF exits
                              THEN WriteTrade(trades, trade_count,
                                              [entry |-> position.entry_idx, exit |-> i,
                                               entry_price |-> position.entry_price,
                                               exit_price |-> current_price,
                                               shares |-> position.shares])
                              ELSE trades
                 /\ trade_count' = IF exits THEN trade_count + 1 ELSE trade_count
                 /\ pc' = IF exits /\ trade_count >= Len(trades) THEN "out_of_bounds"
                          ELSE pc
                 /\ peak_equity' = peak1
                 /\ max_drawdown' = IF RGt(drawdown, max_drawdown) THEN drawdown
                                    ELSE max_drawdown
                 /\ early_return' =
                        IF i = mid_point
                        THEN RMul(RDiv(RSub(current_equity, initial_capital),
                                       initial_capital), Hundred)
                        ELSE early_return
    /\ idx' = idx + 1
    /\ UNCHANGED <<data, strategy, initial_capital, capital, entry_price, equity_curve,
                   metrics, indicators, objectVars, sweepVars, callVars, cacheVars,
                   walkVars>>

(* Lines 139-161: the position still open is closed at closes[-1], exit     *)
(* index n - 1; the arrays are trimmed to trade_count                       *)
NbFinish ==
    /\ pc = "nb_loop"
    /\ idx >= NbLoopEnd(Len(data))
    /\ LET open == position.entry_idx >= 0
           final_price == ILast(data).close
           pnl == RMul(RSub(final_price, position.entry_price), position.shares)
       IN  /\ trades' = IF open
                        THEN WriteTrade(trades, trade_count,
                                        [entry |-> position.entry_idx,
                                         exit |-> Len(data) - 1,
                                         entry_price |-> position.entry_price,
                                         exit_price |-> final_price,
                                         shares |-> position.shares])
                        ELSE trades
           /\ trade_count' = IF open THEN trade_count + 1 ELSE trade_count
           /\ equity' = IF open THEN RAdd(equity, pnl) ELSE equity
           /\ pc' = IF open /\ trade_count >= Len(trades) THEN "out_of_bounds"
                    ELSE "nb_done"
           /\ metrics' = [final_equity |-> equity',
                          max_drawdown |-> max_drawdown,
                          early_return |-> early_return,
                          total_trades |-> trade_count',
                          position_open |-> IF open THEN 1 ELSE 0]
    /\ UNCHANGED <<data, strategy, initial_capital, capital, position, entry_price,
                   equity_curve, idx, signal, indicators, peak_equity, max_drawdown,
                   early_return, objectVars, sweepVars, callVars, cacheVars, walkVars>>

(* Lines 50-70: the arrays of n // 2 slots and the locals before the loop *)
InitNumba ==
    /\ data \in UNION {{FlatBars(cs) : cs \in [1..n -> 1..NbPrice]} : n \in 0..NbBars}
    /\ strategy \in {[class |-> "run_strategy_numba", start_idx |-> s] : s \in 1..NbMaxStart}
    /\ trades = [k \in 1..(Len(data) \div 2) |-> Unwritten]
    /\ trade_count = 0
    /\ position = [entry_idx |-> -1, entry_price |-> Zero, shares |-> Zero]
    /\ initial_capital = R(DefaultCapital)
    /\ capital = initial_capital
    /\ equity = capital
    /\ peak_equity = capital
    /\ max_drawdown = Zero
    /\ early_return = Zero
    /\ idx = strategy.start_idx
    /\ pc = "nb_loop"
    /\ entry_price = Zero
    /\ equity_curve = <<>>
    /\ signal = "NONE"
    /\ metrics = NoMetrics
    /\ indicators = None
    /\ prev_ema_fast = None
    /\ prev_ema_slow = None
    /\ calls_left = 0
    /\ returned = <<>>
    /\ optimizer = None
    /\ total_combinations = 0
    /\ evaluated = <<>>
    /\ tested_count = 0
    /\ valid_count = 0
    /\ skipped_count = 0
    /\ best_result = None
    /\ results = <<>>
    /\ sweep_pc = "idle"
    /\ call = None
    /\ ret = None
    /\ ema_cache = <<>>
    /\ vol_cache = <<>>
    /\ train_period_days = 0
    /\ test_period_days = 0
    /\ current_idx = 0

NextNumba == NbIter \/ NbFinish

SpecNumba == InitNumba /\ [][NextNumba]_vars

(* C30: every write to the trade arrays of run_strategy_numba, the write of *)
(* the forced close included, is at an index trade_count < n // 2, and the  *)
(* entry and the exit of a recorded trade are on different bars.            *)
C30_TradeArrayBounds ==
    (pc \in {"nb_loop", "nb_done", "out_of_bounds"}) =>
        /\ pc # "out_of_bounds"
        /\ trade_count <= Len(data) \div 2
        /\ \A k \in 1..trade_count :
               /\ k <= Len(trades)
               /\ trades[k] # Unwritten
               /\ trades[k].entry < trades[k].exit

C30_Witness ==
    /\ pc = "nb_done"
    /\ trade_count = Len(data) \div 2
    /\ trade_count >= 2
    /\ metrics.position_open = 1
    /\ trades[trade_count].exit = Len(data) - 1
    /\ trades[trade_count].entry = Len(data) - 2

====
